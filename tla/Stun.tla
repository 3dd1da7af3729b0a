-------------------------------- MODULE Stun --------------------------------
(***************************************************************************)
(* A binding request of the client (stun.BindingRequest) answered by the   *)
(* STUN server of signal-server over an unreliable network.  Messages are  *)
(* records; the value of an address attribute is the sequence of its       *)
(* octets, as both ends take it apart by position.                         *)
(***************************************************************************)
EXTENDS Naturals, Sequences, Bitwise

CONSTANTS
    Hosts,        \* IPv4 addresses the NAT shows, sequences of four octets
    HostPorts,    \* ports it shows, sequences of two octets
    Txn           \* transaction ids, sequences of twelve octets

VARIABLES
    mapped,       \* the address and port the server sees
    sent,         \* the transaction id of the request, or none
    toServer, toClient,   \* datagrams under way
    reqPc,        \* BindingRequest: not yet called, reading, answered, timed out
    outcome       \* the address it returned, or an error

stunVars == <<mapped, sent, toServer, toClient, reqPc, outcome>>

Cookie  == <<33, 18, 164, 66>>          \* 0x2112A442
Invalid == [err |-> TRUE, ip |-> <<>>, port |-> <<>>]
Found(ip, port) == [err |-> FALSE, ip |-> ip, port |-> port]

\* Octets from m to n of a value, and two sequences of octets xor-ed.
Octets(v, m, n) == SubSeq(v, m, n)
XorOctets(v, w) == [i \in 1 .. Len(v) |-> v[i] ^^ w[i]]

-----------------------------------------------------------------------------
(* The client's end.                                                        *)

BindingRequest(txn) == [type |-> "request", cookie |-> Cookie, txn |-> txn, attrs |-> <<>>]

\* byte(xorIP^stunMagicCookie>>k): the shift binds tighter than the xor, so each
\* octet is the last octet of the value xor-ed with one of the cookie's.
XorIPv4(v) == [i \in 1 .. 4 |-> v[8] ^^ Cookie[i]]

\* parseXORMappedAddr and parseMappedAddr; the family is taken from the first
\* octet.
ParseXORMappedAddr(v, txn) ==
    CASE Len(v) >= 8 /\ v[1] = 1 ->
           Found(XorIPv4(v), XorOctets(Octets(v, 3, 4), Cookie))
      [] Len(v) >= 20 /\ v[1] = 2 ->
           Found(XorOctets(Octets(v, 5, 20), Cookie \o txn), XorOctets(Octets(v, 3, 4), Cookie))
      [] OTHER -> Invalid

ParseMappedAddr(v) ==
    CASE Len(v) >= 8 /\ v[1] = 1  -> Found(Octets(v, 5, 8), Octets(v, 3, 4))
      [] Len(v) >= 20 /\ v[1] = 2 -> Found(Octets(v, 5, 20), Octets(v, 3, 4))
      [] OTHER -> Invalid

\* parseBindingResponse: the last XOR-MAPPED-ADDRESS counts, and one that cannot
\* be parsed spoils the message; without any the first MAPPED-ADDRESS that can
\* be parsed does.  The transaction id is not compared.
ParseBindingResponse(m, txn) ==
    LET at(type) == {i \in DOMAIN m.attrs : m.attrs[i].type = type}
        xor(i)   == ParseXORMappedAddr(m.attrs[i].value, txn)
        plain(i) == ParseMappedAddr(m.attrs[i].value)
        good     == {i \in at("mapped") : plain(i) # Invalid}
    IN  CASE m.type # "response" \/ m.cookie # Cookie -> Invalid
          [] \E i \in at("xor-mapped") : xor(i) = Invalid -> Invalid
          [] at("xor-mapped") # {} ->
               xor(CHOOSE i \in at("xor-mapped") : \A j \in at("xor-mapped") : j <= i)
          [] at("xor-mapped") = {} /\ good # {} ->
               plain(CHOOSE i \in good : \A j \in good : i <= j)
          [] OTHER -> Invalid

-----------------------------------------------------------------------------
(* The server's end.                                                        *)

\* buildSTUNResponse: reserved octet, family, port and address, xor-ed with the
\* cookie.
BuildSTUNResponse(req, addr) ==
    [type |-> "response", cookie |-> Cookie, txn |-> req.txn,
     attrs |-> << [type  |-> "xor-mapped",
                   value |-> <<0, 1>> \o XorOctets(addr.port, Cookie) \o XorOctets(addr.ip, Cookie)] >>]

-----------------------------------------------------------------------------
StunInit ==
    /\ mapped \in [err : {FALSE}, ip : Hosts, port : HostPorts]
    /\ sent = <<>>
    /\ toServer = {} /\ toClient = {}
    /\ reqPc = "ready" /\ outcome = Invalid

SendRequest ==
    /\ reqPc = "ready"
    /\ sent' \in Txn
    /\ toServer' = {BindingRequest(sent')}
    /\ reqPc' = "reads"
    /\ UNCHANGED <<mapped, toClient, outcome>>

\* runSTUNServer: what is not a request with the cookie is skipped.
Serve ==
    /\ \E m \in toServer :
         /\ toServer' = toServer \ {m}
         /\ toClient' = IF m.type = "request" /\ m.cookie = Cookie
                        THEN toClient \cup {BuildSTUNResponse(m, mapped)} ELSE toClient
    /\ UNCHANGED <<mapped, sent, reqPc, outcome>>

\* The network loses a datagram.
Lose ==
    /\ \/ \E m \in toServer : toServer' = toServer \ {m} /\ UNCHANGED toClient
       \/ \E m \in toClient : toClient' = toClient \ {m} /\ UNCHANGED toServer
    /\ UNCHANGED <<mapped, sent, reqPc, outcome>>

\* The first datagram that comes is taken for the answer ...
Receive ==
    /\ reqPc = "reads"
    /\ \E m \in toClient :
         /\ outcome' = ParseBindingResponse(m, sent)
         /\ toClient' = toClient \ {m}
    /\ reqPc' = "answered"
    /\ UNCHANGED <<mapped, sent, toServer>>

\* ... unless the read deadline of five seconds is over.
TimeOut ==
    /\ reqPc = "reads"
    /\ reqPc' = "timed out"
    /\ UNCHANGED <<mapped, sent, toServer, toClient, outcome>>

StunNext == SendRequest \/ Serve \/ Lose \/ Receive \/ TimeOut

StunSpec == StunInit /\ [][StunNext]_stunVars

-----------------------------------------------------------------------------
(* Properties.                                                              *)

\* A client that asks the project's own STUN server, and gets an answer in time,
\* learns the address it is seen under.
OwnAnswerUnderstood == reqPc = "answered" => outcome = mapped
=============================================================================
