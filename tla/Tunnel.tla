------------------------------- MODULE Tunnel -------------------------------
(***************************************************************************)
(* How one ingress process pairs a public connection with a client: the    *)
(* request broadcast over NATS, the clients' claims, the round-robin       *)
(* decision and its acknowledgements, the pending map, and the callback    *)
(* sockets whose prefix binds them to a pending connection                 *)
(* (ingress/src/lib.rs and client/src/lib.rs).                             *)
(*                                                                         *)
(* Timers are actions that may fire whenever they are armed, so every race *)
(* between a timeout and a late message is a behaviour.  A NATS message is *)
(* delivered at most once and in any order.                                *)
(***************************************************************************)
EXTENDS ClaimSelection

CONSTANTS
    Conn,           \* public connections (each has its own connection id)
    Client,         \* client ids
    Host,           \* hostnames, already lowercased
    NoHost,         \* no hostname was detected: the "<default>" route
    NoClient,       \* no winner yet
    Serves,         \* Serves[c]: the hosts some backend rule of c matches
    Passthrough,    \* hosts with an sni_passthrough route
    DomainRouting,  \* domain_subject_routing
    MaxIngress,     \* max_ingress_connections, 0 for no limit
    MaxHandshakes,  \* max_callback_handshakes, 0 for no limit
    Stray,          \* clients that may call back without having been accepted
    MaxOutages      \* bound on restarts, crashes and lost sessions together

Route == Host \cup {NoHost}

ASSUME TunnelAssumption ==
    /\ Client \subseteq Nat
    /\ IsFiniteSet(Client)
    /\ IsFiniteSet(Conn)
    /\ NoClient \notin Client
    /\ Serves \in [Client -> SUBSET Route]
    /\ Passthrough \subseteq Host
    /\ DomainRouting \in BOOLEAN
    /\ MaxIngress \in Nat
    /\ MaxHandshakes \in Nat
    /\ Stray \subseteq Client
    /\ MaxOutages \in Nat

VARIABLES
    phase,       \* phase[k]: where the public connection k is
    host,        \* host[k]: hostname found in the preface
    permit,      \* connections that hold an ingress_capacity permit
    requests,    \* <<c, k>>: request for k on its way to client c
    claimMsgs,   \* <<c, k>>: claim of c on its way to the inbox of k
    claims,      \* claims[k]: claimants collected by the handler of k
    invalid,     \* connections whose handler collected a claim it cannot accept
    cursor,      \* route_claim_cursor
    winner,      \* winner[k]
    acked,       \* acked[k]: claimants whose acknowledgement was published
    acks,        \* acknowledgements on their way to clients
    subscribed,  \* clients with a live request subscription
    task,        \* task[c][k]: the client's handle_request task
    sock,        \* sock[c][k]: the callback socket, as the ingress sees it
    handshakes,  \* <<c, k>>: sockets that hold a handshake permit
    outages      \* restarts, crashes and lost sessions so far

public  == <<phase, permit>>
locals  == <<claims, invalid, acked, claimMsgs>>
choice  == <<cursor, winner>>
network == <<requests, acks>>
clients == <<subscribed, task>>
data    == <<sock, handshakes>>
vars    == <<public, host, locals, choice, network, clients, data, outages>>

Phase == {"new", "detect", "passthrough", "prepare", "await", "collect",
          "ack", "granted", "pending", "relay", "closed"}
Task == {"none", "claimed", "dial", "bridge", "done"}
Sock == {"none", "open", "handshake", "relay", "refused", "closed"}
Ack  == [to : Client, conn : Conn, accepted : BOOLEAN]

\* The phases in which the ingress still owns the public socket.
Live == Phase \ {"new", "closed"}

Init ==
    /\ phase = [k \in Conn |-> "new"]
    /\ host = [k \in Conn |-> NoHost]
    /\ permit = {}
    /\ requests = {}
    /\ claimMsgs = {}
    /\ claims = [k \in Conn |-> {}]
    /\ invalid = {}
    /\ cursor = [r \in Route |-> 0]
    /\ winner = [k \in Conn |-> NoClient]
    /\ acked = [k \in Conn |-> {}]
    /\ acks = {}
    /\ subscribed = Client
    /\ task = [c \in Client |-> [k \in Conn |-> "none"]]
    /\ sock = [c \in Client |-> [k \in Conn |-> "none"]]
    /\ handshakes = {}
    /\ outages = 0

Goto(k, p) == phase' = [phase EXCEPT ![k] = p]

SetTask(c, k, t) == task' = [task EXCEPT ![c][k] = t]

SetSock(c, k, s) == sock' = [sock EXCEPT ![c][k] = s]

DropSocketKeepPermit(k) ==
    /\ Goto(k, "closed")
    /\ claims' = [claims EXCEPT ![k] = {}]
    /\ acked' = [acked EXCEPT ![k] = {}]
    /\ invalid' = invalid \ {k}
    /\ claimMsgs' = {m \in claimMsgs : m[2] # k}
    /\ UNCHANGED permit

\* The public socket is dropped: the permit that follows it is returned, and
\* the handler's claims and inbox are gone.
DropSocket(k) ==
    /\ Goto(k, "closed")
    /\ permit' = permit \ {k}
    /\ claims' = [claims EXCEPT ![k] = {}]
    /\ acked' = [acked EXCEPT ![k] = {}]
    /\ invalid' = invalid \ {k}
    /\ claimMsgs' = {m \in claimMsgs : m[2] # k}
-----------------------------------------------------------------------------
(***************************************************************************)
(* The public side: accept_public_loop and handle_ingress.                 *)
(***************************************************************************)
\* A connection is accepted with a permit, or dropped at the limit.
AcceptPublic(k) ==
    /\ phase[k] = "new"
    /\ \/ /\ MaxIngress = 0
          /\ Goto(k, "detect")
          /\ UNCHANGED permit
       \/ /\ Cardinality(permit) < MaxIngress
          /\ Goto(k, "detect")
          /\ permit' = permit \cup {k}
       \/ /\ MaxIngress > 0
          /\ Cardinality(permit) >= MaxIngress
          /\ Goto(k, "closed")
          /\ UNCHANGED permit
    /\ UNCHANGED <<host, locals, choice, network, clients, data, outages>>

\* detect_hostname found h (NoHost: raw bytes or no name in the preface), and
\* select_sni_passthrough looked it up.
DetectHostname(k, h) ==
    /\ phase[k] = "detect"
    /\ host' = [host EXCEPT ![k] = h]
    /\ Goto(k, IF h \in Passthrough THEN "passthrough" ELSE "prepare")
    /\ UNCHANGED <<permit, locals, choice, network, clients, data, outages>>

\* The preface did not arrive before ingress_handshake_timeout_ms, could not
\* be read, or is a malformed or oversized one.
DetectFails(k) ==
    /\ phase[k] = "detect"
    /\ DropSocket(k)
    /\ UNCHANGED <<host, choice, network, clients, data, outages>>

\* The passthrough backend could not be reached, or the relay to it ended.
PassthroughEnds(k) ==
    /\ phase[k] = "passthrough"
    /\ DropSocket(k)
    /\ UNCHANGED <<host, choice, network, clients, data, outages>>

\* The clients that receive a request for host h: those on the host's own
\* subject, or everyone on the shared subject.
Recipients(h) ==
    IF DomainRouting THEN {c \in subscribed : h \in Serves[c]} ELSE subscribed

\* The request is published; NATS delivers it to some of its subscribers.
Broadcast(k) ==
    /\ phase[k] = "prepare"
    /\ DomainRouting => host[k] # NoHost
    /\ Goto(k, "await")
    /\ \E reached \in SUBSET Recipients(host[k]) :
          requests' = requests \cup (reached \X {k})
    /\ UNCHANGED <<permit, host, locals, choice, acks, clients, data, outages>>

\* NATS is not ready, the inbox subscription or the publish failed, or
\* domain routing has no hostname to derive a subject from.
BroadcastFails(k) ==
    /\ phase[k] = "prepare"
    /\ DropSocket(k)
    /\ UNCHANGED <<host, choice, network, clients, data, outages>>

\* The first claim ends the wait; further ones join it until the window closes.
CollectClaim(k, c) ==
    /\ phase[k] \in {"await", "collect"}
    /\ <<c, k>> \in claimMsgs
    /\ claimMsgs' = claimMsgs \ {<<c, k>>}
    /\ claims' = [claims EXCEPT ![k] = @ \cup {c}]
    /\ Goto(k, "collect")
    /\ UNCHANGED <<permit, host, invalid, acked, choice, network, clients, data,
                   outages>>

\* A claim that does not decode, or that names another connection, reaches
\* the inbox of k from a client that has seen the request.
CollectInvalid(k, c) ==
    /\ phase[k] \in {"await", "collect"}
    /\ c \in Stray
    /\ task[c][k] = "done"
    /\ invalid' = invalid \cup {k}
    /\ Goto(k, "collect")
    /\ UNCHANGED <<permit, host, claims, acked, claimMsgs, choice, network,
                   clients, data, outages>>

\* No claim arrived within claim_timeout_ms, or the subscription ended.
ClaimTimeout(k) ==
    /\ phase[k] = "await"
    /\ DropSocket(k)
    /\ UNCHANGED <<host, choice, network, clients, data, outages>>

\* The collection window closes and one invalid claim fails them all: no
\* claimant is answered.
DecideFails(k) ==
    /\ phase[k] = "collect"
    /\ k \in invalid
    /\ DropSocket(k)
    /\ UNCHANGED <<host, choice, network, clients, data, outages>>

\* The collection window closes and the route's cursor selects the winner;
\* the inbox is not read again.
Decide(k) ==
    /\ phase[k] = "collect"
    /\ k \notin invalid
    /\ \E c \in Client :
          /\ Selected(claims[k], cursor[host[k]], c)
          /\ winner' = [winner EXCEPT ![k] = c]
    /\ cursor' = [cursor EXCEPT ![host[k]] = Advanced(claims[k], @)]
    /\ claimMsgs' = {m \in claimMsgs : m[2] # k}
    /\ Goto(k, "ack")
    /\ UNCHANGED <<permit, host, claims, invalid, acked, network, clients, data,
                   outages>>

PublishAckToAll(k, c) ==
    /\ phase[k] = "ack"
    /\ c \in claims[k] \ acked[k]
    /\ \A d \in claims[k] \ acked[k] : c <= d
    /\ acked' = [acked EXCEPT ![k] = @ \cup {c}]
    /\ \/ /\ task[c][k] = "claimed"
          /\ acks' = acks \cup {[to |-> c, conn |-> k, accepted |-> TRUE]}
       \/ UNCHANGED acks
    /\ Goto(k, IF claims[k] \subseteq acked'[k] THEN "granted" ELSE "ack")
    /\ UNCHANGED <<permit, host, claims, invalid, claimMsgs, choice, requests,
                   clients, data, outages>>

PublishAckUntilWinner(k, c) ==
    /\ phase[k] = "ack"
    /\ c \in claims[k] \ acked[k]
    /\ \A d \in claims[k] \ acked[k] : c <= d
    /\ acked' = [acked EXCEPT ![k] = @ \cup {c}]
    /\ \/ /\ task[c][k] = "claimed"
          /\ acks' = acks \cup {[to |-> c, conn |-> k, accepted |-> c = winner[k]]}
       \/ UNCHANGED acks
    /\ Goto(k, IF c = winner[k] THEN "granted" ELSE "ack")
    /\ UNCHANGED <<permit, host, claims, invalid, claimMsgs, choice, requests,
                   clients, data, outages>>

\* Acknowledgements go out one by one in the order of the client ids; NATS
\* may lose one, and drops it when the client's inbox is gone.  After the last
\* the handler returns the winner.
PublishAck(k, c) ==
    /\ phase[k] = "ack"
    /\ c \in claims[k] \ acked[k]
    /\ \A d \in claims[k] \ acked[k] : c <= d
    /\ acked' = [acked EXCEPT ![k] = @ \cup {c}]
    /\ \/ /\ task[c][k] = "claimed"
          /\ acks' = acks \cup {[to |-> c, conn |-> k, accepted |-> c = winner[k]]}
       \/ UNCHANGED acks
    /\ Goto(k, IF claims[k] \subseteq acked'[k] THEN "granted" ELSE "ack")
    /\ UNCHANGED <<permit, host, claims, invalid, claimMsgs, choice, requests,
                   clients, data, outages>>

\* Publishing an acknowledgement failed; earlier ones are already out.
PublishAckFails(k) ==
    /\ phase[k] = "ack"
    /\ DropSocket(k)
    /\ UNCHANGED <<host, choice, network, clients, data, outages>>

\* The public socket moves into the pending map and its cleanup is armed.
InsertPending(k) ==
    /\ phase[k] = "granted"
    /\ Goto(k, "pending")
    /\ UNCHANGED <<permit, host, locals, choice, network, clients, data, outages>>

ExpireNeverDue(k) ==
    /\ phase[k] = "pending"
    /\ UNCHANGED vars

ExpireBound(k) ==
    /\ phase[k] \in {"pending", "relay"}
    /\ DropSocket(k)
    /\ UNCHANGED <<host, choice, network, clients, data, outages>>

\* The cleanup task finds the entry still there after pending_timeout_ms.
ExpirePending(k) ==
    /\ phase[k] = "pending"
    /\ DropSocket(k)
    /\ UNCHANGED <<host, choice, network, clients, data, outages>>
-----------------------------------------------------------------------------
(***************************************************************************)
(* The client: process_messages, handle_request, submit_claim and          *)
(* bridge_connection.                                                      *)
(***************************************************************************)
ClaimRequestUnmatched(c, k) ==
    /\ <<c, k>> \in requests
    /\ requests' = requests \ {<<c, k>>}
    /\ \/ /\ phase[k] \in {"await", "collect"}
          /\ claimMsgs' = claimMsgs \cup {<<c, k>>}
       \/ UNCHANGED claimMsgs
    /\ SetTask(c, k, "claimed")
    /\ UNCHANGED <<public, host, claims, invalid, acked, choice, acks, subscribed,
                   data, outages>>

\* A request with a matching backend rule is claimed; NATS may lose the claim,
\* and drops it when the inbox is gone.
ClaimRequest(c, k) ==
    /\ <<c, k>> \in requests
    /\ requests' = requests \ {<<c, k>>}
    /\ host[k] \in Serves[c]
    /\ \/ /\ phase[k] \in {"await", "collect"}
          /\ claimMsgs' = claimMsgs \cup {<<c, k>>}
       \/ UNCHANGED claimMsgs
    /\ SetTask(c, k, "claimed")
    /\ UNCHANGED <<public, host, claims, invalid, acked, choice, acks, subscribed,
                   data, outages>>

\* No backend rule matches the hostname, or the claim could not be published.
DeclineRequest(c, k) ==
    /\ <<c, k>> \in requests
    /\ requests' = requests \ {<<c, k>>}
    /\ SetTask(c, k, "done")
    /\ UNCHANGED <<public, host, locals, choice, acks, subscribed, data, outages>>

ReceiveAckUnread(c, k, ack) ==
    /\ task[c][k] = "claimed"
    /\ ack \in acks
    /\ ack.to = c
    /\ ack.conn = k
    /\ acks' = acks \ {ack}
    /\ SetTask(c, k, "dial")
    /\ UNCHANGED <<public, host, locals, choice, requests, subscribed, data,
                   outages>>

\* The decision reaches the client while it waits for it.
ReceiveAck(c, k, ack) ==
    /\ task[c][k] = "claimed"
    /\ ack \in acks
    /\ ack.to = c
    /\ ack.conn = k
    /\ acks' = acks \ {ack}
    /\ SetTask(c, k, IF ack.accepted THEN "dial" ELSE "done")
    /\ UNCHANGED <<public, host, locals, choice, requests, subscribed, data,
                   outages>>

AckTimeoutWaitsAgain(c, k) ==
    /\ task[c][k] = "claimed"
    /\ UNCHANGED vars

\* No decision within claim_ack_timeout_ms; one that arrives later is dropped
\* with the inbox.
AckTimeout(c, k) ==
    /\ task[c][k] = "claimed"
    /\ SetTask(c, k, "done")
    /\ acks' = {a \in acks : a.to # c \/ a.conn # k}
    /\ UNCHANGED <<public, host, locals, choice, requests, subscribed, data,
                   outages>>

\* The accepted client opens the callback socket and writes its prefix.
DialCallback(c, k) ==
    /\ task[c][k] = "dial"
    /\ SetTask(c, k, "bridge")
    /\ SetSock(c, k, "open")
    /\ UNCHANGED <<public, host, locals, choice, network, subscribed, handshakes, outages>>

\* The ingress's callback address cannot be reached.
DialFails(c, k) ==
    /\ task[c][k] = "dial"
    /\ SetTask(c, k, "done")
    /\ UNCHANGED <<public, host, locals, choice, network, subscribed, data, outages>>

\* The client closes its end: its relay finished, the ingress closed the
\* socket, the protocol is not allowed, or the backend cannot be reached.
BridgeEnds(c, k) ==
    /\ task[c][k] = "bridge"
    /\ SetTask(c, k, "done")
    /\ UNCHANGED <<public, host, locals, choice, network, subscribed, data, outages>>

\* A callback socket carries the id of a connection its client was not
\* accepted for (the prefix is not authenticated).
StrayCallback(c, k) ==
    /\ c \in Stray
    /\ task[c][k] = "done"
    /\ sock[c][k] = "none"
    /\ SetSock(c, k, "open")
    /\ UNCHANGED <<public, host, locals, choice, network, clients, handshakes, outages>>
-----------------------------------------------------------------------------
(***************************************************************************)
(* The data side: accept_data_loop and handle_client_data.                 *)
(***************************************************************************)
\* A callback is accepted with a handshake permit, or dropped at the limit.
AcceptData(c, k) ==
    /\ sock[c][k] = "open"
    /\ \/ /\ MaxHandshakes = 0
          /\ SetSock(c, k, "handshake")
          /\ UNCHANGED handshakes
       \/ /\ Cardinality(handshakes) < MaxHandshakes
          /\ SetSock(c, k, "handshake")
          /\ handshakes' = handshakes \cup {<<c, k>>}
       \/ /\ MaxHandshakes > 0
          /\ Cardinality(handshakes) >= MaxHandshakes
          /\ SetSock(c, k, "refused")
          /\ UNCHANGED handshakes
    /\ UNCHANGED <<public, host, locals, choice, network, clients, outages>>

BindAnyClient(c, k) ==
    /\ sock[c][k] = "handshake"
    /\ phase[k] = "pending"
    /\ Goto(k, "relay")
    /\ SetSock(c, k, "relay")
    /\ handshakes' = handshakes \ {<<c, k>>}
    /\ UNCHANGED <<permit, host, locals, choice, network, clients, outages>>

BindKeepHandshake(c, k) ==
    /\ sock[c][k] = "handshake"
    /\ phase[k] = "pending"
    /\ winner[k] = c
    /\ Goto(k, "relay")
    /\ SetSock(c, k, "relay")
    /\ UNCHANGED <<permit, host, locals, choice, network, clients, handshakes, outages>>

BindEntryStays(c, k) ==
    /\ sock[c][k] = "handshake"
    /\ phase[k] = "pending"
    /\ winner[k] = c
    /\ SetSock(c, k, "relay")
    /\ handshakes' = handshakes \ {<<c, k>>}
    /\ UNCHANGED <<public, host, locals, choice, network, clients, outages>>

\* The prefix names a pending connection and its winner: the entry leaves the
\* map, the handshake permit is released and the relay starts.
Bind(c, k) ==
    /\ sock[c][k] = "handshake"
    /\ phase[k] = "pending"
    /\ winner[k] = c
    /\ Goto(k, "relay")
    /\ SetSock(c, k, "relay")
    /\ handshakes' = handshakes \ {<<c, k>>}
    /\ UNCHANGED <<permit, host, locals, choice, network, clients, outages>>

\* The prefix names a pending connection but not its winner.  The entry was
\* removed before the comparison, so the public socket is dropped too.
BindMismatch(c, k) ==
    /\ sock[c][k] = "handshake"
    /\ phase[k] = "pending"
    /\ winner[k] # c
    /\ DropSocket(k)
    /\ SetSock(c, k, "refused")
    /\ handshakes' = handshakes \ {<<c, k>>}
    /\ UNCHANGED <<host, choice, network, clients, outages>>

\* "unknown or expired connection id".
BindUnknown(c, k) ==
    /\ sock[c][k] = "handshake"
    /\ phase[k] # "pending"
    /\ SetSock(c, k, "refused")
    /\ handshakes' = handshakes \ {<<c, k>>}
    /\ UNCHANGED <<public, host, locals, choice, network, clients, outages>>

PrefixFailsOnClose(c, k) ==
    /\ sock[c][k] = "handshake"
    /\ task[c][k] = "done"
    /\ SetSock(c, k, "closed")
    /\ handshakes' = handshakes \ {<<c, k>>}
    /\ UNCHANGED <<public, host, locals, choice, network, clients, outages>>

\* The prefix did not arrive before callback_handshake_timeout_ms, the socket
\* was closed first, or the line is not a prefix.
PrefixFails(c, k) ==
    /\ sock[c][k] = "handshake"
    /\ SetSock(c, k, "closed")
    /\ handshakes' = handshakes \ {<<c, k>>}
    /\ UNCHANGED <<public, host, locals, choice, network, clients, outages>>

\* The relay ends; both sockets and the permit are dropped.
RelayEnds(c, k) ==
    /\ phase[k] = "relay"
    /\ sock[c][k] = "relay"
    /\ DropSocket(k)
    /\ SetSock(c, k, "closed")
    /\ UNCHANGED <<host, choice, network, clients, handshakes, outages>>
-----------------------------------------------------------------------------
(***************************************************************************)
(* Outages.                                                                *)
(***************************************************************************)
Outage == outages < MaxOutages /\ outages' = outages + 1

\* The client's subscription ends: its ticket is renewed over a new
\* connection, or NATS dropped it.  Requests published meanwhile are lost to
\* it; tasks already running keep their own handle on the connection.
SessionEnds(c) ==
    /\ Outage
    /\ c \in subscribed
    /\ subscribed' = subscribed \ {c}
    /\ requests' = {r \in requests : r[1] # c}
    /\ UNCHANGED <<public, host, locals, choice, acks, task, data>>

SessionStarts(c) ==
    /\ c \in Client \ subscribed
    /\ subscribed' = subscribed \cup {c}
    /\ UNCHANGED <<public, host, locals, choice, network, task, data, outages>>

\* A route of the client process failed, so the process exits with its tasks.
ClientExits(c) ==
    /\ Outage
    /\ subscribed' = subscribed \ {c}
    /\ requests' = {r \in requests : r[1] # c}
    /\ acks' = {a \in acks : a.to # c}
    /\ task' = [task EXCEPT ![c] =
                   [k \in Conn |-> IF @[k] = "none" THEN "none" ELSE "done"]]
    /\ UNCHANGED <<public, host, locals, choice, data>>

\* A listener or the NATS watchdog failed: the ingress process exits with all
\* of its sockets and maps, and its supervisor starts it again.
IngressRestarts ==
    /\ Outage
    /\ phase' = [k \in Conn |-> IF phase[k] = "new" THEN "new" ELSE "closed"]
    /\ permit' = {}
    /\ claims' = [k \in Conn |-> {}]
    /\ acked' = [k \in Conn |-> {}]
    /\ invalid' = {}
    /\ claimMsgs' = {}
    /\ cursor' = [r \in Route |-> 0]
    /\ sock' = [c \in Client |-> [k \in Conn |->
                   IF sock[c][k] \in {"open", "handshake", "relay"}
                   THEN "closed" ELSE sock[c][k]]]
    /\ handshakes' = {}
    /\ UNCHANGED <<host, winner, network, clients>>
-----------------------------------------------------------------------------
Handler(k) ==
    \/ AcceptPublic(k)
    \/ \E h \in Route : DetectHostname(k, h)
    \/ DetectFails(k)
    \/ PassthroughEnds(k)
    \/ Broadcast(k)
    \/ BroadcastFails(k)
    \/ \E c \in Client : CollectClaim(k, c)
    \/ \E c \in Client : CollectInvalid(k, c)
    \/ ClaimTimeout(k)
    \/ DecideFails(k)
    \/ Decide(k)
    \/ \E c \in Client : PublishAck(k, c)
    \/ PublishAckFails(k)
    \/ InsertPending(k)
    \/ ExpirePending(k)

Request(c, k) ==
    \/ ClaimRequest(c, k)
    \/ DeclineRequest(c, k)
    \/ \E ack \in acks : ReceiveAck(c, k, ack)
    \/ AckTimeout(c, k)
    \/ DialCallback(c, k)
    \/ DialFails(c, k)
    \/ BridgeEnds(c, k)
    \/ StrayCallback(c, k)

Callback(c, k) ==
    \/ AcceptData(c, k)
    \/ Bind(c, k)
    \/ BindMismatch(c, k)
    \/ BindUnknown(c, k)
    \/ PrefixFails(c, k)
    \/ RelayEnds(c, k)

\* Every connection and every task has ended: the processes wait for input.
Idle ==
    /\ \A k \in Conn : phase[k] = "closed"
    /\ \A c \in Client, k \in Conn : task[c][k] \in {"none", "done"}
    /\ UNCHANGED vars

Next ==
    \/ \E k \in Conn : Handler(k)
    \/ \E c \in Client, k \in Conn : Request(c, k) \/ Callback(c, k)
    \/ \E c \in Client : SessionEnds(c) \/ SessionStarts(c) \/ ClientExits(c)
    \/ IngressRestarts
    \/ Idle

Spec == Init /\ [][Next]_vars

\* Timers fire, a runnable task runs and a connect attempt ends.  Nothing is
\* assumed of peers: messages may be lost and relays may last for ever.
Fairness ==
    /\ \A k \in Conn :
          /\ WF_vars(DetectFails(k))
          /\ WF_vars(Broadcast(k) \/ BroadcastFails(k))
          /\ WF_vars(ClaimTimeout(k))
          /\ WF_vars(Decide(k) \/ DecideFails(k))
          /\ WF_vars(\E c \in Client : PublishAck(k, c))
          /\ WF_vars(InsertPending(k))
          /\ WF_vars(ExpirePending(k))
    /\ \A c \in Client, k \in Conn :
          /\ WF_vars(AckTimeout(c, k))
          /\ WF_vars(DialCallback(c, k) \/ DialFails(c, k))
          /\ WF_vars(AcceptData(c, k))
          /\ WF_vars(PrefixFails(c, k))

FairSpec == Spec /\ Fairness
-----------------------------------------------------------------------------
(***************************************************************************)
(* Properties.                                                             *)
(***************************************************************************)
\* Every variable has its type; a cursor stays below the number of clients,
\* as next_claim_index reduces it modulo the number of claims.
TypeOK ==
    /\ phase \in [Conn -> Phase]
    /\ host \in [Conn -> Route]
    /\ permit \subseteq Conn
    /\ requests \subseteq Client \X Conn
    /\ claimMsgs \subseteq Client \X Conn
    /\ claims \in [Conn -> SUBSET Client]
    /\ invalid \subseteq Conn
    /\ cursor \in [Route -> Nat]
    /\ \A r \in Route : cursor[r] = 0 \/ cursor[r] < Cardinality(Client)
    /\ winner \in [Conn -> Client \cup {NoClient}]
    /\ acked \in [Conn -> SUBSET Client]
    /\ acks \subseteq Ack
    /\ subscribed \subseteq Client
    /\ task \in [Client -> [Conn -> Task]]
    /\ sock \in [Client -> [Conn -> Sock]]
    /\ handshakes \subseteq Client \X Conn
    /\ outages \in 0..MaxOutages

\* A public connection is relayed to exactly one callback socket, the one of
\* the client its handler selected, and a callback socket is relayed only to
\* the connection its prefix names: whatever the order in which callbacks,
\* expiry, restarts and stray prefixes reach the pending map
\* (handle_client_data, spawn_pending_cleanup).
PairedWithWinner ==
    \A c \in Client, k \in Conn :
        sock[c][k] = "relay" <=> phase[k] = "relay" /\ winner[k] = c

\* At most one client is ever told to open a tunnel for a connection: every
\* accepting acknowledgement in flight and every client task that dials or
\* bridges belongs to the winner (broadcast_and_wait_for_claim,
\* handle_request).
OnlyWinnerAccepted ==
    /\ \A a \in acks : a.accepted => winner[a.conn] = a.to
    /\ \A c \in Client, k \in Conn :
          task[c][k] \in {"dial", "bridge"} => winner[k] = c

\* The winner of a connection has a backend rule for its hostname, although
\* the request may have been broadcast to everybody and the decision is made
\* by the ingress, which knows no backend rules (handle_request checks).
WinnerServesHost ==
    \A k \in Conn : winner[k] # NoClient => host[k] \in Serves[winner[k]]

\* A connection enters the pending map only after every collected claimant
\* was sent its decision, and the winner is one of them.
AnsweredBeforePending ==
    \A k \in Conn : phase[k] \in {"granted", "pending", "relay"} =>
        /\ acked[k] = claims[k]
        /\ winner[k] \in claims[k]

\* "The permit follows the public socket through pending and relay states":
\* with a limit, the permits in use are those of the sockets the ingress still
\* owns, none leaks on any error path and the limit holds.
PermitFollowsSocket ==
    /\ permit = IF MaxIngress = 0 THEN {} ELSE {k \in Conn : phase[k] \in Live}
    /\ MaxIngress > 0 => Cardinality({k \in Conn : phase[k] \in Live}) <= MaxIngress

\* A handshake permit is held exactly while a callback's prefix is awaited:
\* an established relay does not use one up (drop(handshake_permit)).
HandshakePermitReleased ==
    /\ handshakes = IF MaxHandshakes = 0 THEN {}
                    ELSE {p \in Client \X Conn : sock[p[1]][p[2]] = "handshake"}
    /\ MaxHandshakes > 0 => Cardinality(handshakes) <= MaxHandshakes

\* The connection's status as its peer and the clients can tell it.
PairingStatus(p) ==
    CASE p = "new" -> "idle"
      [] p \in {"detect", "prepare", "await", "collect"} -> "waiting"
      [] p = "passthrough" -> "direct"
      [] p \in {"ack", "granted", "pending"} -> "offered"
      [] p = "relay" -> "joined"
      [] p = "closed" -> "dropped"

Abstract == INSTANCE Pairing WITH
    status <- [k \in Conn |-> PairingStatus(phase[k])],
    owner  <- winner,
    peers  <- [k \in Conn |-> {c \in Client : sock[c][k] = "relay"}]

\* The protocol implements Pairing: every step of a handler, a client task or
\* a callback is a step of the promise or leaves it alone, so a connection
\* changes hands only by the decision, is joined to the selected client only
\* and is never revived once dropped.
ImplementsPairing == Abstract!PairingSpec

\* Every accepted public connection is eventually relayed or dropped, however
\* messages are lost: each wait of handle_ingress has a deadline and the
\* pending entry has its cleanup task.
ConnectionSettles ==
    \A k \in Conn :
        phase[k] = "detect" ~> phase[k] \in {"relay", "passthrough", "closed"}

\* A client that claimed does not wait for ever: it is answered or gives up,
\* and an accepted one ends up with a callback socket or gives up.
ClaimantSettles ==
    \A c \in Client, k \in Conn :
        task[c][k] = "claimed" ~> task[c][k] \in {"bridge", "done"}

\* Every callback socket is eventually bound or dropped, so handshake permits
\* come back.
CallbackSettles ==
    \A c \in Client, k \in Conn :
        sock[c][k] = "open" ~> sock[c][k] \in {"relay", "refused", "closed"}

\* "Server decision returned to every claimant" (shared/src/protocol.rs): a
\* claim on its way to the inbox is collected for the decision, unless the
\* connection is dropped.
EveryClaimantAnswered ==
    [][\A c \in Client, k \in Conn :
          <<c, k>> \in claimMsgs \ claimMsgs' =>
              c \in claims'[k] \/ phase'[k] = "closed"]_vars

\* "A short prefix binds the reverse connection to the waiting public socket"
\* (README): the callback of the selected client is not turned away while the
\* ingress still holds the public socket for it.
WinnerCallbackBinds ==
    \A c \in Client, k \in Conn :
        sock[c][k] = "refused" /\ winner[k] = c
            => phase[k] \notin {"ack", "granted", "pending"}
=============================================================================
