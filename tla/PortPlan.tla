------------------------------ MODULE PortPlan ------------------------------
(***************************************************************************)
(* Which public port stands for which local port: how runTunnel makes the  *)
(* list of services from the flags -local, -port and -proto, and what      *)
(* becomes of the list when the relay server starts the services one after *)
(* the other.                                                              *)
(***************************************************************************)
EXTENDS Naturals, Sequences

CONSTANTS
    LocalLists,   \* values of -local and -port: sequences of what the parts of
    PortLists,    \* the list read as, a number or NotANumber
    NotANumber,
    Taken         \* <<port, proto>> pairs that other programs use at the server

VARIABLES
    local, port, proto,   \* the flags
    services,             \* relay.ServiceMap entries, in order
    started               \* how many of them the server has dealt with, and
                          \* the public ports that are served: port -> local

planVars == <<local, port, proto, services, started>>

\* parsePorts: what is not a port number is skipped, and an empty result stands
\* for the default port.
IsPort(p)       == p # NotANumber /\ p > 0 /\ p <= 65535
ParsePorts(lst) ==
    LET ports == SelectSeq(lst, IsPort) IN IF ports = <<>> THEN <<8080>> ELSE ports

\* protoEnabled, over the two protocols in their order.
Protos(p) == IF p = "both" THEN <<"tcp", "udp">> ELSE <<p>>

\* The i-th local port is offered under the i-th preferred port, if there is one.
RemotePort(locals, prefer, i) ==
    IF i <= Len(prefer) /\ prefer[i] # 0 THEN prefer[i] ELSE locals[i]

\* runTunnel, third layer: one service per local port and enabled protocol.
Services(locals, prefer, protos) ==
    LET n == Len(protos) IN
    [k \in 1 .. n * Len(locals) |->
        LET i == ((k - 1) \div n) + 1 IN
        [LocalPort |-> locals[i], RemotePort |-> RemotePort(locals, prefer, i),
         Proto |-> protos[((k - 1) % n) + 1]]]

PlanInit ==
    /\ local \in LocalLists /\ port \in PortLists
    /\ proto \in {"tcp", "udp", "both"}
    /\ services = <<>>
    /\ started = [n |-> 0, map |-> {}]

MakePlan ==
    /\ services = <<>>
    /\ services' = Services(ParsePorts(local), ParsePorts(port), Protos(proto))
    /\ UNCHANGED <<local, port, proto, started>>

\* handleRelayClient starts the services in the order of the register message;
\* one whose port is in use, also by an earlier one, is left out.
StartService ==
    /\ started.n < Len(services)
    /\ LET svc == services[started.n + 1]
           key == <<svc.RemotePort, svc.Proto>>
           used == Taken \cup {e[1] : e \in started.map} IN
         started' = [n   |-> started.n + 1,
                     map |-> IF key \in used THEN started.map
                             ELSE started.map \cup {<<key, svc.LocalPort>>}]
    /\ UNCHANGED <<local, port, proto, services>>

PlanNext == MakePlan \/ StartService

PlanSpec == PlanInit /\ [][PlanNext]_planVars

-----------------------------------------------------------------------------
(* Properties.                                                              *)

\* With -port 0, the default, the public ports are the local ones: a public
\* port that is served leads to the local port of the same number.
ZeroMatchesLocal ==
    port = <<0>> => \A e \in started.map : e[1][1] = e[2]
=============================================================================
