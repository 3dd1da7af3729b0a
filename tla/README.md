# p2p-tun: a TLA+ verification project

p2p-tun exposes local TCP and UDP services through a public relay server. This
directory holds TLA+ models of its concurrent core, TLC configurations that
check them on small instances, and TLAPS proofs, for every value of the
parameters, of the invariants, action properties and refinements those runs check.

Every module is written from the Go source; `PROJECT.json` maps each definition
to the lines it models.

## 1. Inventory

### Parts of the system

| Part | Source | State | Operations |
|---|---|---|---|
| Relay server, registration | `signal-server/main.go` 462-660 | `clients` and `listeners` maps, bound ports, one handler goroutine per connection | register, authenticate, start services, ok reply, teardown |
| Relay server, channels | `signal-server/main.go` 314-356, 673-1148 | `channelConns`, `udpSessions`, `udpMu`, one goroutine per service and per connection | accept, announce, pipe, datagrams, session cleanup, close frames, plugin checks |
| Relay server, start and stop | `signal-server/main.go` 240-312, 358-460 | `stunConn`, `relayListener`, stop channels, `fatalCh`, `clientsMu` | start the servers, wait for a signal or an error, close everything |
| Limits and filters | `plugin/*.go` | connection counters per client and per server, CIDR lists, token bucket, LZ4 | OnAccept, OnClose, Wait, Compress |
| Relay client | `relay/relay.go` | `channels`, `udpChannels`, `connInfos`, `closeCh` | Connect, readLoop, dial the local service, pipe, Close |
| Dynamic plugins | `dynplugin/*.go` | per process: `pending`, `nextID`, `writeMu`, pipes | Call, Notify, readLoop, Stop, hooks of the manager |
| Client application | `main.go` | `appStatus`, `stopCh`, `relayClient` | start, stop, UPnP - STUN - relay fallback, port plan |
| STUN | `stun/stun.go`, `signal-server/main.go` 358-447 | none | encode, parse, classify the NAT |
| UPnP | `upnp/upnp.go` | none (the gateway keeps the mappings) | discover, add and delete mappings |
| Forwarding, keepalive, log | `forward/`, `keepalive/`, `logutil/` | counters, log ring | forward, ping, record |
| Sample plugins | `plugins/*/plugin.py` | tables of single-threaded scripts | hooks |

An external connection is accepted by the **server**, admitted by the two
limiters, the filters and the plugin hooks, given a channel id, and announced to
the **client** by a `new_conn` frame. The client dials the local service, answers
`conn_ready`, and from then on both ends pump data frames over the one relay
connection until either closes the channel. The plugin **checker** of the server
closes channels on its own. The client **application** starts and stops relay
clients on requests of its web page.

### What is hard here

* Several goroutines remove the same channel (pipe, reader of `frameClose`,
  checker, acceptor on failure, teardown); exactly one may give its slots back.
* Hooks run between two critical sections: what was read before the call may be
  stale after it.
* `Client.Close` and the stop of a channel are not atomic; several goroutines
  run them at once.
* Locks are held across writes to the network and, on one path, forever.
* Listeners work before the registration is answered.
* A client that goes away must be torn down although each of its goroutines
  blocks on something else, and the teardown races datagrams in hand.
* A plugin may answer late, twice, or never, may die, or may stop reading.
* Both read loops also write, on a connection whose buffers are finite.
* The server can be told to stop while it is still starting.
* The web page's requests share globals without a lock.

The list of hazards, each at its line with the properties that guard it, is in
`PROJECT.json`.

### What correctness means, per part

* Channels: a limit is a limit; a slot is given back exactly once and is not
  lost; an id is not used again; a closed connection gives its slot back; the
  teardown of a vanished client ends, and with it every connection it found.
* Registration: a port is never blocked by a dead entry; every connection is
  served or dropped; the reply is the first thing a client reads.
* Tunnel: each direction of a TCP channel is an ordered stream without gaps; a UDP
  session keeps the order of its datagrams and repeats none; closing one end closes
  the other; the displayed count is right.
* Connection: frames stay whole; nobody waits for ever to send; a broken
  connection sets everybody free.
* Bandwidth limit: what the pipes relay is bounded; no chunk is held back for good.
* Forwarders: a half-closed connection still delivers; a sender gets its own answers.
* Server process: told to stop, or unable to start, it ends.
* Plugin calls: each caller gets its own answer; nothing blocks the reader; the
  table of pending calls does not grow; a call returns if the plugin reads.
* Idle connections: only idle channels are closed, and all of them are.
* STUN, port plan: the client understands the server; a public port leads where the
  documentation says.
* Application: no stop is missed, no port mapping is left behind, the status
  does not claim a tunnel that is gone.

## 2. Modules

| Module | Models | Uses |
|---|---|---|
| `ServerChannels` | the channels of one registered client and both limiters | |
| `ServerChannelsProofs` | theorems about it | extends `ServerChannels` |
| `ChannelStream` | abstract: one direction of a channel as a stream | |
| `Tunnel` | both halves of the channels of one tunnel and the two frame queues | instantiates `ChannelStream` twice |
| `TunnelProofs` | theorems about it, the two refinements included | extends `Tunnel` |
| `RelayLink` | the relay connection as a byte stream with finite buffers, its writers and its two read loops | |
| `RelayLinkProofs` | theorems about it | extends `RelayLink` |
| `Registration` | several clients registering TCP services | |
| `RegistrationProofs` | theorems about it | extends `Registration` |
| `ServerShutdown` | start and end of the server process | |
| `RateLimiter` | the token bucket of `-rate-limit` and the pipes that share it | |
| `RateLimiterProofs` | theorems about it | extends `RateLimiter` |
| `PluginProcess` | one plugin process and its callers | |
| `IdleTimeout` | the hooks of channels on their way to a plugin, and the `conn-timeout` plugin | |
| `PluginProofs` | theorems about the two | extends `PluginProcess`, `IdleTimeout` |
| `GuiTunnel` | start and stop requests and tunnel goroutines of the client application | |
| `GuiTunnelProofs` | theorems about it | extends `GuiTunnel` |
| `Forward` | the TCP and UDP forwarders of the two direct modes | |
| `ForwardProofs` | theorems about the UDP forwarder | extends `Forward` |
| `PortPlan` | from the flags `-local`, `-port`, `-proto` to the ports served | |
| `Stun` | a binding request and its answer, octet by octet | |
| `MC*` | the above for TLC (symmetry sets, constant functions) | |

Four MC modules put models side by side that are about one part of the
system: `MCServerLimits` (`ServerChannels`, `RateLimiter`), `MCServerLife`
(`Registration`, `RelayLink`, `ServerShutdown`), `MCPlugins` (`PluginProcess`,
`IdleTimeout`), `MCForwarding` (`Tunnel`, `Forward`). They share no variable. `MCInit`
chooses which of them runs (`part`); the others stay in their initial state, of which
their fairness asks nothing. `MCForwarding` and `MCGuiTunnel` also use `part` to
explore one model within different bounds.

A step of a model is what one goroutine does between two points where another
may run: one critical section, one hook call, one frame write, one access of an
unprotected global. Definitions marked "Faulty variant" are plausible mistakes
in the definition that follows them. No specification uses them; each run has
been repeated with the faulty variant in place of the right definition, and each
property of the run is violated by one of them (`mutants` in `PROJECT.json`).

**ServerChannels.** `accPc`/`accCh` is the acceptor of each TCP service, from
`Accept` (`TcpAccept`) through the client's limiter (`TcpAdmit`), the table
(`TcpInsert`), `on_open` and the announcement (`TcpAnnounce`), with the error
paths `TcpOpenRefused`, `TcpAnnounceFails`, `TcpUndo`, `TcpClosing`. `pipe` is
`pipeExternalToClient`; its deferred function is `PipeForget` (does the entry
still exist?) followed by `PipeRelease`. `udpPc` is `udpReadLoop`; `udpMu` is a
variable because one path leaves it locked (`UdpOpenRefused`). `rdPc` is the
reader and then the teardown, `ckPc` the plugin checker. `current` and `gcur` are
the two `ConnLimit` counters. `held` is a history variable: the channels that
took a client slot and have not given it back. Both loggers behind `on_data`
return an empty action (`dynplugin/adapter.go` 36-39), so its close branches are
unreachable and left out. The reader's `Write` to an external connection is a state
of its own (`ReadData`, `ReadWritten`), in which a user who does not read keeps it
(`Blocked`). A limit of 0 means no limiter, as in the code.

**Tunnel.** `s2c` and `c2s` are the relay connection. `sTab`, `sPipe`, `ext` are
the server's half, `cTab`, `cPipe`, `local` the client's. Data chunks are
numbered, so that loss, reordering and duplication show; a frame is compressed
or not by the negotiation of the two `-compress` flags, and a frame the other end
cannot read is dropped, as in `readLoop`. An acceptor enters its connection
(`SrvAccept`), asks `on_open` (`SrvRefuse`) and announces it (`SrvAnnounce`,
`SrvAnnounceFails`) in separate steps, also while the server tears down, which is
two steps as well (`SrvTeardown` sweeps the tables, `SrvHangsUp` closes the
connection; `sRd`); `late` names the connections entered after the sweep. `Write`
errors are ignored for datagrams (`CliData`, `SrvData`). The checker closes a TCP
channel (`SrvPluginCloses`) or drops a session without telling the client
(`SrvPluginCuts`, `ext` is `"cut"`). A refused session leaves `udpMu` locked
(`SrvRefuseSession`, `udpJam`), and the reader gets stuck on it.

**ChannelStream** has a set `lossy` of channels: for those a `Get` may leave chunks
out; for the others it takes the next one. `Declare` says which kind a channel is of,
once, before anything is put into it.

**RelayLink** is what `Tunnel` takes for granted. `stream` holds the parts (headers and
payloads) under way in each direction, at most `Cap`. `at`/`job` is a goroutine in
`writeFrame`, `mu` is `writeMu` of each side, `udpMu` the lock that the datagram loops
and the session cleanup hold across a write. `rd`/`frame` is a read loop; what it
answers to a frame is `Answers`. `ReadTimeout` is the 300 second deadline of the client,
which throws away a frame half read (`torn`). `Refused` is the session a plugin refuses,
after which `udpMu` stays locked (`Abandoned`). All channels of a kind look the same here.

**Forward.** `copier` is the goroutine of each direction of one TCP connection; `shut`
is what the ends did, `fin` what they see. For UDP, `buf` is the buffer the loop reads
into, `job`/`port` the goroutine of a datagram and its socket; a datagram is a number,
so that an answer shows which one it belongs to.

**RateLimiter.** Time is counted in what one byte takes, which makes the floating
point arithmetic of the code exact in integers. `Wait` is two critical sections with a
sleep between them (`WaitSleeps`, `WaitEnds`). `since`, `through` and `total` measure from
any one moment at which no chunk waits, the start included.

**Registration.** `pc` is `handleRelayClient`, `acc` the acceptor of each service,
whose deferred function deletes the map entry (`AcceptorDeletes`) and then closes
the listener (`AcceptorCloses`). `bound` is what the operating system has bound,
as opposed to `listeners`, the map. A frame is two writes, header and payload, so
that another goroutine can come in between; `wire` keeps the first two parts.

**ServerShutdown.** `server` and `socket` are the two servers' goroutines, `published`
the sockets that `main` can see (the globals are not locked). `checkerPc` and `loopPc` are
the two goroutines that can hold up `clientsMu`: the checker, which holds it, and a
datagram loop, which holds the `udpMu` the checker waits for, or has left it locked
(`LoopRefused`).

**PluginProcess.** `stdin` and `stdout` are the pipes, `asked` what the plugin has
read and may still answer, up to `MaxDup` times. Each request is about a matter
of its own (`about`), which the answer repeats, so that a wrong delivery shows.

**IdleTimeout.** `state` is a channel at the server, `inbox` the hooks on their way to
the plugin in the order they were written, `tracked`, `idle`, `warned`, `sinceWarn` the
tables of `conn-timeout`, `checker`/`closing` is `runPluginChecker`. Ages are counted only
as far as something depends on them. `quiet` is a history variable: how long a channel
has had no data, whatever the plugin knows.

**PortPlan** and **Stun** are mostly operators (`ParsePorts`, `Services`;
`ParseBindingResponse`, `BuildSTUNResponse`) with just enough of a state machine around
them: services started one after the other, datagrams that are lost or late.

**GuiTunnel.** `tun` is `handleStart` followed by the goroutine of `runTunnel`, `stp`
is `handleStop`. `stopCh` is numbered by creation; `closedCh` are the closed ones.
`recv` is the client `Connect` was called on, which need not be the one this
tunnel created. `rl` is the `readLoop` it started: it may end by itself, which nobody is
told (`ReadLoopEnds`), and its deferred `Close` has the three steps that the one of a
stop has, `select`, `close(closeCh)`, `conn.Close()` (`ReadLoopSelects`,
`ReadLoopCloses`, `ReadLoopHangs`; `StopSelects`, `StopCloses`, `StopHangs`). `gw` is the gateway's table, `mine` the deferred deletes.
`DetectNATType` is the classification of `stun.go`; two of its results cannot occur,
because the local address it compares with is a wildcard. A start goes through
`Discover` (SSDP, then NAT-PMP, then `GetExternalIP`), the mappings, STUN and the relay.
NAT-PMP yields a gateway without a control URL, on which `GetExternalIP` always fails.
The history variables `overlap` (a start was let through while an earlier request
was not over), `interrupted` (a stop came before a start was through) and `broke` (a
relay connection ended without a `Close` of this side) let two properties say when
they hold.

## 3. Runs

| Run | Instance | Shows |
|---|---|---|
| `server_limits` | 2 ids, 1 TCP and 1 UDP service, client limit 2, server limit 1, no plugins; 2 pipes, bucket of 2, chunks up to 3; fair | `NoSlotLeak`, `GlobalLimitEnforced`, `SlotReturned`, `DisconnectCompletes`; `RateBounded`, `EveryChunkPasses` |
| `channels_plugins` | 2 ids, 1 + 1 services, client limit 1, server limit 2, plugins | `ClientLimitEnforced`, `SlotAccounting`, `IdsNeverReused`, whatever plugins refuse or close |
| `forwarding` | a TCP and a UDP channel, or one of them with 2 chunks each way, both sides compressing, and plugins; a forwarded connection with 2 chunks each way; 3 datagrams, 2 senders, 2 ports; fair | `InboundIsStream`, `OutboundIsStream` (`Tunnel` implements `ChannelStream` in each direction), `CountMatchesTable`, `HangupReachesService`, `HangupReachesUser`, `DownDrainsTunnel`; `HalfCloseDelivers`, `AnswersTheAsker` |
| `server_life` | 2 clients, 1 port; a relay connection with buffers of 1 part, 3 frames, 1 deadline; the server with and without STUN; fair | `NoStaleEntry`, `PortsComeBack`, `EveryConnectionSettles`; `FramesStayWhole`, `SendersGetThrough`, `TcpNeverWedges`, `DownReleasesAll`; `ShutdownCompletes` |
| `plugins` | 2 callers, 2 calls, 1 notification, pipe of 1 line, 2 answers per call; a TCP and a UDP channel, pipe of 2 lines, 1 late answer; fair | `AnswerIsMine`, `ReaderNeverBlocks`, `PendingIsInFlight`, `CallReturns`; `OnlyIdleIsClosed`, `IdleGetsClosed`, `TrackedIsOpen` |
| `gui_start_stop` | 2 starts, with 2 stops, or with 1 stop and relay connections that break, or with 1 stop and 2 mappings | `ShownRunningIsServed`, `StopDisconnects`, `NoMissedStop`, `MappingsGoWithTunnel` |
| `udp_lock_held` | 1 UDP service, plugins, fair | violated: `DisconnectCompletes` |
| `rate_limit_shared` | 2 pipes, bucket of 2 | violated: `SharedLimitHolds` |
| `stuck_plugin` | 2 callers, 2 calls, 1 notification, pipe of 1 line, fair | violated: `TimeoutBoundsCall` |
| `registration_reply` | 1 client, 1 port | violated: `ReplyComesFirst` |
| `port_zero` | up to 2 local and 2 public ports | violated: `ZeroMatchesLocal` |
| `stun_own_server` | 1 address with 2 ports, lossy network | violated: `OwnAnswerUnderstood` |

Deadlock is not checked: every model has a finite supply of ids, requests, frames
or connections and may come to rest.

### Bounds, and why they are enough

* Channel ids are used once, so `Chan` bounds the connections of a behaviour. Two
  are enough for every race of two channels for the last slot, at the client's
  limit (`channels_plugins`, limit 1) and at the server's (`server_limits`, limit 1);
  the proofs cover every number. A server limit of 1 leaves no slot for the second
  datagram of a session (`UdpKnown`); `channels_plugins` has those. A datagram that finds all ids used is dropped
  (`UdpFull`), which stands for the end of the instance.
* Two pipes at the bucket: one sleeps while the other uses the tokens it counts on.
  A chunk of 3 is larger than the bucket. The clock stops when nothing sleeps.
* Two clients and one port: every conflict in `Registration` is between a client
  that leaves and one that takes its port. `NewConns` follows one announcement
  per client; the reply it can disturb is written once.
* One channel with two chunks each way: the first can overtake the dial, or be lost
  while the second gets through. Compression is a property of each frame. Two channels
  are explored without plugins and without data: how one channel ends disturbs another
  only through the reader and the teardown, which two channels show. Data and plugins
  concern a channel of its own; the proofs of the two stream properties cover any
  number of channels and chunks.
* Buffers of one part: each write of a second part has to wait for a reader, so that
  every wait for room happens; three frames give two that fill the buffers and
  one whose answer finds them full. With larger buffers it takes more frames to
  get into the same situations.
* Three datagrams, two senders, two ports: a port can be used again while an answer to
  its first socket is under way.
* Two callers, two calls: one late answer and one call it could be taken for. A
  pipe of one line is full at once. In `IdleTimeout` two lines let hooks queue up
  behind a check; `MaxLate` bounds the answers thrown away.
* Two starts and two stops: each race is between two requests of a kind, or one
  of each with a tunnel; two of each also give a race after a restart. Two mappings:
  the second can fail after the first was made, and the tunnel goes on without UPnP.
  Mappings and the races for the relay client have no state in common, so a
  behaviour has no gateway, or `readLoop`s that run on. Relay connections that end by
  themselves are explored with one stop: that race is between a stop and a `readLoop`.

### Fairness, and why the code justifies it

Weak fairness of a goroutine's next step means that the Go scheduler runs it; it is
asked only of steps that do not wait for the outside. Users, local services, the
network, plugins' verdicts and idle timeouts are never forced.

* `ServerChannels`: strong fairness of `Teardown`, because only finitely many frames
  of a broken connection are left to be read before `readFrame` fails. Nothing makes a
  user read: a reader in `extConn.Write` may stay there (`Blocked`), and
  `DisconnectCompletes` says what holds if it does not.
* `RateLimiter`: time passes while a pipe sleeps, and timers fire.
* `Registration`: `RegisterFails` is fair because of the 15 second deadline
  before the first frame. The teardown is taken to begin when the connection breaks,
  so a reader stuck in a `Write` to a user who does not read is left out.
* `ServerShutdown`: goroutines run; nobody need send a signal. Strong fairness of
  `CheckerUnlocks`: the checker waits for `udpMu`, and Go's mutexes do not starve a
  waiter.
* `PluginProcess`: strong fairness of `Lock` (for the same reason); the timer of `Call`
  fires. Nothing makes the plugin read or answer, so `CallReturns` excepts a plugin
  that leaves its pipe full (`PipeFull`): then `sendRaw` blocks in `Write` before the
  timer is started (`process.go:138`), which is run `stuck_plugin`.
* `IdleTimeout`: the plugin handles its input, time passes, and the checker is not kept
  out of the pipe for ever (strong fairness of `CheckAsks`, asked only while something is
  tracked). At most `MaxLate` answers are late: a plugin that is always late closes
  nothing. The checker is taken to get `udpMu`, which a refused session or a stalled
  client of any tunnel can keep from it.
* `Tunnel`: both read loops run, so users and services are taken to go on reading; a pipe
  whose connection is closed ends. Acceptors are not forced.
* `RelayLink`: goroutines that can run do, so the external users and local services
  are taken to go on reading (the read loops write to them without a deadline).
* `Forward`: the copies run and a dial ends; the two ends do what they like.

### Disagreements between code and documents

Each violated run is explained, with the line it contradicts, under `findings` in
`PROJECT.json`:

1. `udp_lock_held`: `on_open` answering `close` for a UDP session leaves `udpMu`
   locked: the client is never torn down.
2. `registration_reply`: `new_conn` can precede, or split, the ok reply, which the
   client takes for a rejection.
3. `port_zero`: `-port 0` is the default and is documented to match the local ports;
   `parsePorts` turns it into port 8080.
4. `stun_own_server`: the client reads the address family from the octet before the
   one the server writes, and rejects every answer of the server. An answer of any
   other server that follows the RFC has the same layout, so the STUN layer of the
   application always falls through to the relay; `StunUp` of `GuiTunnel` allows
   for the case all the same.
5. `rate_limit_shared`: `-rate-limit` is documented as a global bandwidth limit. Several
   pipes that sleep at once count on the same tokens and together exceed it, by at most
   the factor that `RateBounded` states.
6. `stuck_plugin`: `-plugin-timeout` is documented to keep a stuck plugin from blocking
   the server. A plugin that stops reading blocks the write that comes before the timer.

The models also contain the following, about which no run claims anything:

* A channel closed by a plugin through `on_check` keeps its client slot (351), so
  `NoSlotLeak` is claimed without plugins only.
* UDP sessions are keyed by the sender alone (844): a sender using two UDP services of
  a client is served by the first one on both ports.
* The server-wide slot is not given back when the client's own filter or limiter
  refuses (`main.go` 723-733), and one is taken per datagram but given back per
  session (832). So a full server-wide counter does not mean a full server;
  `GlobalLimitEnforced` is the direction that holds.
* With plugins the server-wide slot can be given back twice (746, 769 and 351), so
  `GlobalLimitEnforced` is claimed without plugins only.
* The teardown sets `udpSessions` to nil (653) while a datagram may be in hand:
  storing the session panics (`UdpNilMap`) and ends the process. The liveness
  properties allow for it.
* The teardown drops UDP sessions without `on_close`: a plugin that tracks channels
  keeps them for ever. `TrackedIsOpen` is about TCP channels.
* Without `udpMu` (disagreement 1) the relay reader waits for ever at the next frame
  that is not for a TCP channel, and the checker and the shutdown behind it.
  `DownReleasesAll`, `SendersGetThrough` (`Abandoned`), `ShutdownCompletes` (`Jammed`) and
  the liveness properties of `Tunnel` (`udpJam`) name that state and claim the rest.
* When the checker drops a UDP session it sends no `frameClose` (336-344): the client's
  local connection stays. `HangupReachesService` leaves these sessions out.
* An acceptor that is past `Accept` when the teardown sweeps `channelConns` (643-647)
  enters its connection afterwards: the connection and its pipe stay until the user sends
  or hangs up. `DownDrainsTunnel` (`late`) and `DisconnectCompletes` leave it out.
* Datagrams whose `Write` fails (`relay.go:341`, `main.go:1106`), or that `on_accept`
  refuses (832), are skipped while later ones get through.
* When a relay connection ends by itself `Running` stays set and `runTunnel` goes on
  waiting; the `Close` that `readLoop` defers can then make the one of `handleStop` panic on
  the closed channel before `SetStopped`. `ShownRunningIsServed` excepts it (`broke`).
* The two read loops can wait for each other (`Wedged`): the client's for room for its
  answer to an announcement, the server's for room for a pong or for `udpMu`. Then the
  connection stands still until TCP gives it up. `TcpNeverWedges` says what it takes.
* The server's shutdown can hang in three ways, which `ShutdownCompletes` names
  (`Overlooked`; `Jammed` by a peer that stopped reading, or by a refused session);
  without any of the exclusions TLC finds it violated.
* An answer to a datagram whose goroutine has given up can reach another sender if the
  port was used again (`strays` in `Forward`).
* `AddPortMapping` takes any answer without the word `errorCode` for success.
* Overlapping starts, and stops that interrupt a start, can leave a connection
  nobody closes, a status that stays "running", or a nil dereference in `runTunnel`
  (`crashed`). `overlap` and `interrupted` exclude exactly these from
  `ShownRunningIsServed` and `StopDisconnects`.
* A stop in one of the two direct modes ends neither the forwarders nor the
  mappings: `runTunnel` waits in `select {}`.
* A mapping whose answer is lost is never deleted (`MappingReplyLost`), nor is one
  whose delete fails (its error is ignored). `MappingsGoWithTunnel` is about the
  others; the history variable `lost` keeps these apart.

## 4. Proofs

All proofs are checked by TLAPS with its SMT, Zenon and LS4 backends. The constants
are arbitrary, subject to one named assumption per module: sets that are counted are
finite, "none" values are no members of the sets they stand beside, bounds are natural
numbers, and a buffer, a bucket or a timeout is not zero (`ConstAssumption`,
`TunnelAssumption`, `LinkAssumption`, `RegAssumption`, `RateAssumption`,
`PluginAssumption`, `IdleAssumption`, `ForwardAssumption`, `GuiAssumption`). TLC
evaluates each of them on a run. Every invariant, action property and refinement that
a passing run checks has a theorem here. `NoSlotLeak` and `GlobalLimitEnforced` are
claimed, checked and proved without plugins only (section 3 says why).

Each argument has the same shape: an inductive invariant, one lemma that every step
keeps it with one step per action, and a temporal step that combines them. What
differs is what the property lacks to be inductive.

`ServerChannelsProofs`, for any numbers of channels, services, senders and any limits:

| Theorem | States |
|---|---|
| `TypeCorrect` | `TypeOK` |
| `SlotAccountingHolds` | the client counter is the number of channels that owe a release, within 0 and the limit |
| `ClientLimitHolds` | never more than `MaxConns` channels are relayed |
| `NoSlotLeakWithoutPlugins` | without plugins no client slot is lost |
| `GlobalLimitWithoutPlugins` | without plugins never more than `GlobalMax` channels are relayed |
| `IdsStayRetired` | an id given up is never in use again |

The counter alone is not inductive: a release is harmless only if nobody else will
release the same channel. `Ownership` says who may: the acceptor until the channel
is announced, then whoever takes it out of its table, and the tables, the pipes
at `"release"` and the reader at `"relTcp"`/`"relUdp"` never name the same channel
twice. `SlotInv` (`TypeOK`, `Ownership`, `ClientSlots`) is inductive, with one step
per action. Without plugins `NoPluginInv` adds that the checker is idle, that no
lock is left behind and that an entry is still there when it is announced, which
gives `NoSlotLeak`. `GlobalSlots` adds that each held slot and each admission under
way is covered by the server-wide counter. `IdsStayRetired` follows from `TypeOK`
and the actions that hand out an id: none touches an id that is used and owed by nobody.

`GuiTunnelProofs`, for any numbers of requests and mappings:

| Theorem | States |
|---|---|
| `TypeCorrect` | `TypeOK`; no stop channel is closed before it exists |
| `NoMissedStopHolds` | nobody waits on a stop channel that no stop will close |
| `MappingsGoHolds` | a confirmed mapping never outlives its tunnels |
| `ShownRunningIsServedHolds` | without overlapping starts and broken connections, "running" means that a tunnel runs and, by relay, has its connection |
| `StopDisconnectsHolds` | without overlaps and interrupted starts, a tunnel that ended is disconnected |

`NoMissedStop` needs `OneRenews`: between its `close` and its `make` a stop request is
alone (a second one panics on the closed channel) and the channel it replaces is
closed. `MappingsGoWithTunnel` needs `DeferredAlive`: only a tunnel that has not
returned has deletes to run.

The last two need `AloneInv`: while no start overlapped, at most one tunnel is
under way (`OneTunnel`), the client it finds in `relayClient` is its own or none
(`OwnClient`), and the status is not set before the tunnel is up (`SetLast`); and
`LoopInv`: a `readLoop` works on the client of its own tunnel (`OwnLoop`), whoever is
about to call `conn.Close()` has found or left `closeCh` closed (`HangsClosed`), and,
unless a connection ended by itself, no `readLoop` is the first to close it (`Unbroken`).

`ShownRunningIsServed` says nothing while a stop is under way, so it cannot be carried
through a stop; `ShownInv` can: a status of running is backed by a tunnel that serves, or
by a stop that has yet to write the status and will not panic before (`Resets`). Of two
stops in `Client.Close` the slower one may panic, and then the faster one is the
witness; that none panics at the stop channel is `ClosedIsRenewed`: a closed current
channel has a stop request about to replace it. `StopDisconnects` needs `QuietInv`: the open
connection belongs to the client that `relayClient` names and that every `Close` under
way works on, one that is stopped or closed has a stop or a `readLoop` that will still
get to `conn.Close()` (`OpenIsCurrent`, `WillHang`), and `relayClient` is forgotten only
after its connection was closed. `KeptInv` gives the connection that
`ShownRunningIsServed` speaks of: a tunnel that waits has it until a stop has closed the
channel it waits on.

`TunnelProofs`, for any channels, any numbers of chunks and either setting of the two
`-compress` flags:

| Theorem | States |
|---|---|
| `TunnelTypeCorrect` | `TypeOK` |
| `CountMatchesTableHolds` | the count the client shows is the size of its table |
| `InboundImplementsStream` | from the external user to the local service, `Tunnel` implements `ChannelStream` |
| `OutboundImplementsStream` | and from the local service to the external user |

A step that hands a chunk over is a `Get` of the stream only if that chunk is the next
one (for a session: a later one). So `InFlowInv` says that while a channel is announced
or its local connection open, the chunks of its frames under way are exactly those
between the last received and the last sent, in order (`Pending`; for a session some of
them, `Ordered`), and that the client can read them all; when the local connection is
gone nothing is promised and nothing delivered. This rests on the life of a channel
(`LifeInv`): an id not handed out is in no table (`UnusedIsEmpty`), one that is not yet
announced is unknown to everybody but its acceptor (`UntoldIsQuiet`), its announcement is
sent once and before its data (`AnnouncedOnce`), and the channel the read loop is setting
up has no pipe yet (`SetUpAlone`). `OutFlowInv` is the other direction. A session is
declared lossy by the step that opens it, when nothing was put into it (`Declared`).
`InboundStep` and `OutboundStep` map every step to a `Declare`, a `Put`, a `Get` or a stutter.

`RelayLinkProofs`, for buffers of any size, any number of frames and heartbeats:

| Theorem | States |
|---|---|
| `FramesStayWholeHolds` | no read loop takes payload for a header or one frame for another |
| `TcpNeverWedgesHolds` | the read loops wait for each other only after a heartbeat or a UDP session |

`Framed` says of each direction that the parts under way fit together with what the
reader waits for at the front and what the holder of `writeMu` has still to write at the
back (`Fits`, with one lemma per kind of write and read); `LockHeld` says that the lock is
held between the two writes of a frame, and only then. For the client's direction it
holds until a deadline tore a frame (a refused session, which leaves only `udpMu` behind,
changes nothing of it). `CalmInv`: before the first heartbeat no ping is
anywhere, so the server's read loop has nothing to write, and before the first frame
under `udpMu` nobody holds that lock.

`RegistrationProofs`, for any clients and ports:

| Theorem | States |
|---|---|
| `TypeCorrect` | `TypeOK` |
| `NoStaleEntryHolds` | whatever blocks a port has an acceptor that will clear it, and a client that left blocks none |

The first half (`AcceptorsHold`) alone does not say that the teardown comes across
everything. `HoldInv` adds that a client is in the map exactly while its handler runs
(`MapFollowsHandler`), that whatever it holds is a service its handler has started and not
yet closed (`HandlerKnows`), and that the services still to be started are among those
that have not failed (`TodoUndecided`). An acceptor on its way out deletes the entry it
finds under its port, whoever's it is; the invariant covers that step too.

`PluginProofs`, for any callers, calls, pipe sizes and repeated answers, and for any
channels and timeouts:

| Theorem | States |
|---|---|
| `PluginTypeCorrect` | `TypeOK` of `PluginProcess` |
| `AnswerIsMineHolds` | a call returns its own answer or an error |
| `ReaderNeverBlocksHolds` | `readLoop` never sends to a full channel |
| `PendingIsInFlightHolds` | until `Stop`, the pending map names calls under way |
| `TrackedIsOpenHolds` | a tracked TCP channel is open or its `on_close` is on its way |
| `OnlyIdleIsClosedHolds` | only channels quiet for twice the timeout are closed (action property) |

`CallInv`: a line under way, in either pipe or in the reader's hand, is about the matter
its id was given out for (`LinesMatch`), so is what the caller will return (`IdsMatch`), and an
id is in the pending map, in the reader's hand or answered, never two of these (`OnePlace`):
the reader removes the entry before it sends, so a repeated answer finds nobody. `IdleInv`: hooks
of a channel arrive in the order they were written (`NothingBeforeOpen`, `CloseComesLast`),
and a clock of the plugin is behind the real one unless the hook that resets it is
still in the pipe (`ClocksBehind`).

`ForwardProofs`, for any senders, ports and datagrams:

| Theorem | States |
|---|---|
| `AnswersTheAskerHolds` | a sender gets its own answers, late answers to a port used again excepted |

`UdpInv`: goroutines that wait have sockets of their own (`PortsApart`), an answer is
addressed to the port its datagram left from (`AnswersReturn`), and datagrams not yet read
have no goroutine (`ReadInTurn`).

`RateLimiterProofs`, for any pipes, any limit and any chunk sizes:

| Theorem | States |
|---|---|
| `RateBoundedHolds` | each pipe, and all together, stay within the stated multiple of the limit |

`PipeInv` bounds what one pipe relayed together with the tokens in the bucket, or with the
chunk it will relay when it wakes up. The bound for all of them needs `TotalInv`, an
account of everybody: what was relayed, what is in the bucket and what the sleepers have
already paid (`Paid`) stay within the total. Each tick adds one token to the bucket and one
to every sleeper. As long as a pipe is awake that is at most one per pipe; when all
sleep it is one more, so the invariant distinguishes that case. Sums over pipes are written as
the cardinality of a set of pairs, about which the library has theorems.

Only model-checked:

* the liveness properties (they rest on fairness, which the prover does not handle):
  `SlotReturned`, `DisconnectCompletes`, `EveryChunkPasses`, `HangupReachesService`,
  `HangupReachesUser`, `DownDrainsTunnel`, `HalfCloseDelivers`, `PortsComeBack`,
  `EveryConnectionSettles`, `ShutdownCompletes`, `CallReturns`, `IdleGetsClosed`,
  `SendersGetThrough`, `DownReleasesAll`;
* the six violated runs, which are counterexamples. `ServerShutdown`, `PortPlan` and
  `Stun` have no theorem: what is claimed of the first is liveness, and the runs of
  the other two show disagreements.

## 5. Not modelled

* Presentation: the embedded web page, login, status output, log ring and traffic
  samples.
* Text: SSDP, SOAP and XML of UPnP, the NAT-PMP packet, the JSON of control messages.
* CIDR matching of the IP filter and LZ4 (library calls; their verdicts and results are
  choices in `ServerChannels` and `Tunnel`).
* Loading of plugin directories and the handshake of a plugin: sequential, before any
  concurrency.
* The plugins `geoip-filter` (one verdict per connection) and `web-access-log` (text).
* UDP sockets in `Registration` (they have no entry in the listeners map).
* When TCP notices that a peer has vanished: the models let it happen at any time.
* Process attributes.

Read but beyond the models, for a maintainer's attention: `SetLogger` of `-plugin-dir`
(`signal-server/main.go:250`) replaces the logger of `-traffic-log`; `OnData` is a
notification (`manager.go:162`), so the close answer to `on_data` that `PLUGIN_DEV.md:193`
describes is never seen; `BindingRequest` does not compare the transaction id of the
answer (`stun.go:205`).

## 6. Plan

Done: the models of `ServerChannels`, `Tunnel` over `ChannelStream`, `RelayLink`,
`Registration`, `ServerShutdown`, `RateLimiter`, `PluginProcess`, `IdleTimeout`,
`GuiTunnel`, `Forward`, `PortPlan`, `Stun`; the proofs of everything the runs check but
liveness. What is left of the code is listed in section 5.

Worth doing next:

1. What of `NoSlotLeak` and `GlobalLimitEnforced` survives with plugins, as a weaker
   invariant that names the lost and the doubled slots.
2. The forwarded TCP connection as a stream (`Forward` implementing `ChannelStream`).
