---------------------------- MODULE TunnelProofs ----------------------------
(***************************************************************************)
(* Proofs about module Tunnel, for any number of connections, clients and  *)
(* routes: type correctness; the permits in use are exactly those of the   *)
(* sockets they are meant for, within the configured limits; a connection  *)
(* is only ever paired with the client that was chosen for it; and the     *)
(* protocol implements Pairing.                                            *)
(***************************************************************************)
EXTENDS TunnelStepProofs

\* A leaf is proved by Zenon, or by SMT where it says so: where it rests on
\* arithmetic or on what an update of a function leaves behind.
USE ZenonT(60), SMTT(30)
-----------------------------------------------------------------------------
(***************************************************************************)
(* Type correctness, but for the route cursors.                            *)
(***************************************************************************)
\* Giving up keeps every variable in its type.
LEMMA GivesUpType ==
    ASSUME TypeOK, NEW k \in Conn, GivesUp(k)
    PROVE  TypeOK'
BY DEF TypeOK, GivesUp, DropSocket, Goto, Phase, choice, network, clients, data

\* So does accepting a connection and reading its preface
\* (accept_public_loop, detect_hostname).
LEMMA DetectType ==
    ASSUME TypeOK, NEW k \in Conn,
           AcceptPublic(k) \/ (\E h \in Route : DetectHostname(k, h))
    PROVE  TypeOK'
<1>1. CASE AcceptPublic(k)
  <2>1. permit' \subseteq Conn /\ (Goto(k, "detect") \/ Goto(k, "closed"))
    BY <1>1 DEF TypeOK, AcceptPublic
  <2>2. phase' \in [Conn -> Phase]
    BY <2>1 DEF TypeOK, Goto, Phase
  <2>3. UNCHANGED <<host, locals, choice, network, clients, data, outages>>
    BY <1>1 DEF AcceptPublic
  <2> QED
    BY <2>1, <2>2, <2>3 DEF TypeOK, locals, choice, network, clients, data
<1>2. ASSUME NEW h \in Route, DetectHostname(k, h) PROVE TypeOK'
  BY <1>2 DEF TypeOK, DetectHostname, Goto, Phase, locals, choice, network, clients,
     data
<1> QED
  BY <1>1, <1>2

\* So does asking the clients and collecting what they answer
\* (broadcast_and_wait_for_claim).
LEMMA CollectType ==
    ASSUME TypeOK, NEW k \in Conn,
           \/ Broadcast(k) \/ InsertPending(k)
           \/ \E c \in Client : CollectClaim(k, c) \/ CollectInvalid(k, c)
    PROVE  TypeOK'
<1>1. CASE Broadcast(k)
  BY <1>1, SMTT(30) DEF TypeOK, Broadcast, Recipients, Goto, Phase, locals, choice, clients, data
<1>2. ASSUME NEW c \in Client, CollectClaim(k, c) PROVE TypeOK'
  BY <1>2 DEF TypeOK, CollectClaim, Goto, Phase, choice, network, clients, data
<1>3. ASSUME NEW c \in Client, CollectInvalid(k, c) PROVE TypeOK'
  BY <1>3 DEF TypeOK, CollectInvalid, Goto, Phase, choice, network, clients, data
<1>4. CASE InsertPending(k)
  BY <1>4 DEF TypeOK, InsertPending, Goto, Phase, locals, choice, network, clients, data
<1> QED
  BY <1>1, <1>2, <1>3, <1>4

\* So does an acknowledgement (publish_claim_ack).
LEMMA AckType ==
    ASSUME TypeOK, NEW k \in Conn, NEW c \in Client, PublishAck(k, c)
    PROVE  TypeOK'
<1>1. [to |-> c, conn |-> k, accepted |-> c = winner[k]] \in Ack
  BY DEF Ack
<1>2. acks' \subseteq Ack
  BY <1>1 DEF PublishAck, TypeOK
<1>3. phase' \in [Conn -> Phase] /\ acked' \in [Conn -> SUBSET Client]
  BY DEF PublishAck, TypeOK, Goto, Phase
<1> QED
  BY <1>2, <1>3 DEF PublishAck, TypeOK, choice, clients, data

\* So do the steps of a client's request task up to the decision
\* (handle_request, submit_claim).
LEMMA ClaimType ==
    ASSUME TypeOK, NEW c \in Client, NEW k \in Conn,
           \/ ClaimRequest(c, k) \/ DeclineRequest(c, k) \/ AckTimeout(c, k)
           \/ \E ack \in acks : ReceiveAck(c, k, ack)
    PROVE  TypeOK'
<1>1. CASE ClaimRequest(c, k)
  BY <1>1 DEF TypeOK, ClaimRequest, SetTask, Task, public, choice, data
<1>2. CASE DeclineRequest(c, k)
  BY <1>2 DEF TypeOK, DeclineRequest, SetTask, Task, public, locals, choice, data
<1>3. ASSUME NEW ack \in acks, ReceiveAck(c, k, ack) PROVE TypeOK'
  BY <1>3 DEF TypeOK, ReceiveAck, SetTask, Task, public, locals, choice, data
<1>4. CASE AckTimeout(c, k)
  BY <1>4 DEF TypeOK, AckTimeout, SetTask, Task, public, locals, choice, data
<1> QED
  BY <1>1, <1>2, <1>3, <1>4

\* So do the steps after it (bridge_connection).
LEMMA DialType ==
    ASSUME TypeOK, NEW c \in Client, NEW k \in Conn,
           DialCallback(c, k) \/ DialFails(c, k) \/ BridgeEnds(c, k) \/ StrayCallback(c, k)
    PROVE  TypeOK'
<1>1. CASE DialCallback(c, k)
  BY <1>1 DEF TypeOK, DialCallback, SetTask, SetSock, Task, Sock, public, locals,
     choice, network
<1>2. CASE DialFails(c, k) \/ BridgeEnds(c, k)
  <2>1. /\ SetTask(c, k, "done")
        /\ UNCHANGED <<public, host, locals, choice, network, subscribed, data, outages>>
    BY <1>2 DEF DialFails, BridgeEnds
  <2> QED
    BY <2>1 DEF TypeOK, SetTask, Task, public, locals, choice, network, data
<1>3. CASE StrayCallback(c, k)
  BY <1>3 DEF TypeOK, StrayCallback, SetSock, Sock, public, locals, choice, network,
     clients
<1> QED
  BY <1>1, <1>2, <1>3

\* So do the steps of a callback socket's handler that leave the pending map
\* alone (accept_data_loop, handle_client_data).
LEMMA HandshakeType ==
    ASSUME TypeOK, NEW c \in Client, NEW k \in Conn,
           AcceptData(c, k) \/ BindUnknown(c, k) \/ PrefixFails(c, k)
    PROVE  TypeOK'
<1>1. PICK s \in Sock : SetSock(c, k, s)
  BY DEF AcceptData, BindUnknown, PrefixFails, Sock
<1>2. sock' \in [Client -> [Conn -> Sock]]
  BY <1>1 DEF TypeOK, SetSock
<1>3. handshakes' \subseteq Client \X Conn
  BY SMTT(30) DEF TypeOK, AcceptData, BindUnknown, PrefixFails
<1>4. UNCHANGED <<public, host, locals, choice, network, clients, outages>>
  BY DEF AcceptData, BindUnknown, PrefixFails
<1> QED
  BY <1>2, <1>3, <1>4 DEF TypeOK, public, locals, choice, network, clients

\* So do those that take an entry out of it, and the end of a relay.
LEMMA BindType ==
    ASSUME TypeOK, NEW c \in Client, NEW k \in Conn,
           Bind(c, k) \/ BindMismatch(c, k) \/ RelayEnds(c, k)
    PROVE  TypeOK'
<1>1. CASE Bind(c, k)
  BY <1>1 DEF TypeOK, Bind, SetSock, Goto, Sock, Phase, locals, choice, network,
     clients
<1>2. CASE BindMismatch(c, k)
  BY <1>2 DEF TypeOK, BindMismatch, SetSock, DropSocket, Goto, Sock, Phase, choice,
     network, clients
<1>3. CASE RelayEnds(c, k)
  BY <1>3 DEF TypeOK, RelayEnds, SetSock, DropSocket, Goto, Sock, Phase, choice,
     network, clients
<1> QED
  BY <1>1, <1>2, <1>3

\* So do lost sessions and exits of clients (run_oauth, run_all).
LEMMA OutageType ==
    ASSUME TypeOK, NEW c \in Client,
           SessionEnds(c) \/ SessionStarts(c) \/ ClientExits(c)
    PROVE  TypeOK'
<1>1. outages' \in 0 .. MaxOutages
  BY TunnelAssumption, SMTT(30) DEF TypeOK, Outage, SessionEnds, SessionStarts, ClientExits
<1>2. CASE SessionEnds(c) \/ SessionStarts(c)
  BY <1>1, <1>2 DEF TypeOK, SessionEnds, SessionStarts, public, locals, choice,
     network, data
<1>3. CASE ClientExits(c)
  BY <1>1, <1>3 DEF TypeOK, ClientExits, Task, public, locals, choice, data
<1> QED
  BY <1>2, <1>3

\* So does a restart of the ingress.
LEMMA RestartType ==
    ASSUME TypeOK, IngressRestarts
    PROVE  TypeOK'
<1>1. outages' \in 0 .. MaxOutages
  BY TunnelAssumption, SMTT(30) DEF TypeOK, Outage, IngressRestarts
<1>2. phase' \in [Conn -> Phase] /\ sock' \in [Client -> [Conn -> Sock]]
  BY DEF TypeOK, IngressRestarts, Phase, Sock
<1> QED
  BY <1>1, <1>2 DEF TypeOK, IngressRestarts, network, clients
-----------------------------------------------------------------------------
(***************************************************************************)
(* What each step does to the sockets that hold permits.                   *)
(***************************************************************************)
Owned == {k \in Conn : phase[k] \in Live}

Awaited == {p \in Client \X Conn : sock[p[1]][p[2]] = "handshake"}

\* A step after which the ingress owns the same public sockets.
SameOwned == Owned' = Owned /\ permit' = permit

\* A step after which the same callbacks' prefixes are awaited.
SameAwaited == Awaited' = Awaited /\ handshakes' = handshakes

\* Dropping a public socket returns its permit, whether it had one or not.
LEMMA DropOwned ==
    ASSUME TypeOK, NEW k \in Conn, DropSocket(k)
    PROVE  Owned' = Owned \ {k} /\ permit' = permit \ {k}
BY DEF TypeOK, DropSocket, Goto, Owned, Live, Phase

\* The steps of a handler between accepting a connection and giving up on it
\* do not touch its permit, and neither does binding a callback.
LEMMA MoveOwned ==
    ASSUME TypeOK, NEW k \in Conn, NEW p \in Live, phase[k] \in Live, Goto(k, p),
           UNCHANGED permit
    PROVE  SameOwned
BY DEF TypeOK, Goto, Owned, SameOwned

\* A step of one callback socket changes whether its prefix is awaited, and
\* nothing for the others.
LEMMA SockAwaited ==
    ASSUME TypeOK, NEW c \in Client, NEW k \in Conn, NEW s, SetSock(c, k, s)
    PROVE  /\ s = "handshake" => Awaited' = Awaited \cup {<<c, k>>}
           /\ s # "handshake" => Awaited' = Awaited \ {<<c, k>>}
<1>1. \A d \in Client, j \in Conn :
          sock'[d][j] = IF d = c /\ j = k THEN s ELSE sock[d][j]
  BY DEF TypeOK, SetSock
<1>2. ASSUME NEW d \in Client, NEW j \in Conn
      PROVE  /\ <<d, j>> \in Awaited <=> sock[d][j] = "handshake"
             /\ <<d, j>> \in Awaited' <=> sock'[d][j] = "handshake"
  BY DEF Awaited
<1>3. Awaited \subseteq Client \X Conn /\ Awaited' \subseteq Client \X Conn
  BY DEF Awaited
<1>4. CASE s = "handshake"
  BY <1>1, <1>2, <1>3, <1>4, SMTT(30)
<1>5. CASE s # "handshake"
  BY <1>1, <1>2, <1>3, <1>5, SMTT(30)
<1> QED
  BY <1>4, <1>5

\* A handler that goes on keeps its permit (handle_ingress).
LEMMA HandlerOwned ==
    ASSUME TypeOK, NEW k \in Conn,
           \/ \E h \in Route : DetectHostname(k, h)
           \/ Broadcast(k) \/ Decide(k) \/ InsertPending(k)
           \/ \E c \in Client : CollectClaim(k, c) \/ CollectInvalid(k, c) \/ PublishAck(k, c)
    PROVE  SameOwned
<1>1. ASSUME NEW h \in Route, DetectHostname(k, h) PROVE SameOwned
  BY <1>1, MoveOwned DEF DetectHostname, Live, Phase
<1>2. CASE Broadcast(k)
  BY <1>2, MoveOwned DEF Broadcast, Live, Phase
<1>3. CASE Decide(k)
  BY <1>3, MoveOwned DEF Decide, Live, Phase
<1>4. CASE InsertPending(k)
  BY <1>4, MoveOwned DEF InsertPending, Live, Phase
<1>5. ASSUME NEW c \in Client, CollectClaim(k, c) \/ CollectInvalid(k, c)
      PROVE  SameOwned
  BY <1>5, MoveOwned DEF CollectClaim, CollectInvalid, Live, Phase
<1>6. ASSUME NEW c \in Client, PublishAck(k, c) PROVE SameOwned
  BY <1>6, MoveOwned DEF PublishAck, Live, Phase
<1> QED
  BY <1>1, <1>2, <1>3, <1>4, <1>5, <1>6

\* Callback sockets are left alone by every step of a handler.
LEMMA HandlerAwaited ==
    ASSUME NEW k \in Conn, Handler(k)
    PROVE  SameAwaited
<1>1. CASE GivesUp(k)
  BY <1>1 DEF GivesUp, data, SameAwaited, Awaited
<1>2. CASE AcceptPublic(k) \/ Broadcast(k) \/ Decide(k) \/ InsertPending(k)
  BY <1>2 DEF AcceptPublic, Broadcast, Decide, InsertPending, data, SameAwaited, Awaited
<1>3. ASSUME NEW h \in Route, DetectHostname(k, h) PROVE SameAwaited
  BY <1>3 DEF DetectHostname, data, SameAwaited, Awaited
<1>4. ASSUME NEW c \in Client,
             CollectClaim(k, c) \/ CollectInvalid(k, c) \/ PublishAck(k, c)
      PROVE  SameAwaited
  BY <1>4 DEF CollectClaim, CollectInvalid, PublishAck, data, SameAwaited, Awaited
<1> QED
  BY <1>1, <1>2, <1>3, <1>4, HandlerGivesUp DEF Handler

\* No socket that a client opens has its prefix awaited yet, if a client that
\* dials has no socket (handle_request).
LEMMA RequestAwaited ==
    ASSUME TypeOK, NEW c \in Client, NEW k \in Conn, Request(c, k),
           task[c][k] = "dial" => sock[c][k] = "none"
    PROVE  SameAwaited
<1>1. UNCHANGED handshakes
  BY RequestPublic
<1>2. ASSUME UNCHANGED sock PROVE SameAwaited
  BY <1>1, <1>2 DEF SameAwaited, Awaited
<1>3. ASSUME NEW ack \in acks, ReceiveAck(c, k, ack) PROVE SameAwaited
  BY <1>2, <1>3 DEF ReceiveAck, data
<1>4. CASE ClaimRequest(c, k) \/ DeclineRequest(c, k) \/ AckTimeout(c, k)
  BY <1>2, <1>4 DEF ClaimRequest, DeclineRequest, AckTimeout, data
<1>5. CASE DialFails(c, k) \/ BridgeEnds(c, k)
  BY <1>2, <1>5 DEF DialFails, BridgeEnds, data
<1>6. CASE DialCallback(c, k) \/ StrayCallback(c, k)
  <2>1. SetSock(c, k, "open") /\ sock[c][k] = "none"
    BY <1>6 DEF DialCallback, StrayCallback
  <2>2. Awaited' = Awaited \ {<<c, k>>}
    BY <2>1, SockAwaited, SMTT(30)
  <2>3. <<c, k>> \notin Awaited
    BY <2>1 DEF Awaited
  <2> QED
    BY <1>1, <2>2, <2>3 DEF SameAwaited
<1> QED
  BY <1>3, <1>4, <1>5, <1>6 DEF Request

\* A lost session, its return and an exit of a client leave the sockets the
\* ingress holds alone.
LEMMA OutageOwned ==
    ASSUME NEW c \in Client, SessionEnds(c) \/ SessionStarts(c) \/ ClientExits(c)
    PROVE  SameOwned /\ SameAwaited
<1>1. UNCHANGED <<phase, permit, sock, handshakes>>
  BY DEF SessionEnds, SessionStarts, ClientExits, public, data
<1> QED
  BY <1>1 DEF SameOwned, Owned, SameAwaited, Awaited

\* A callback's handler keeps the public socket's permit, or returns it with
\* the socket (handle_client_data).
LEMMA CallbackOwned ==
    ASSUME TypeOK, NEW c \in Client, NEW k \in Conn, Callback(c, k)
    PROVE  SameOwned \/ DropSocket(k)
<1>1. CASE AcceptData(c, k) \/ BindUnknown(c, k) \/ PrefixFails(c, k)
  BY <1>1 DEF AcceptData, BindUnknown, PrefixFails, public, SameOwned, Owned
<1>2. CASE Bind(c, k)
  BY <1>2, MoveOwned DEF Bind, Live, Phase
<1>3. CASE BindMismatch(c, k) \/ RelayEnds(c, k)
  BY <1>3 DEF BindMismatch, RelayEnds
<1> QED
  BY <1>1, <1>2, <1>3 DEF Callback

\* A callback's handler that is done with the prefix releases the handshake
\* permit: bound, refused or given up.  The end of a relay has none to release.
LEMMA CallbackAwaited ==
    ASSUME TypeOK, NEW c \in Client, NEW k \in Conn,
           \/ Bind(c, k) \/ BindMismatch(c, k) \/ BindUnknown(c, k)
           \/ PrefixFails(c, k) \/ RelayEnds(c, k)
    PROVE  /\ Awaited' = Awaited \ {<<c, k>>}
           /\ handshakes' = handshakes \ {<<c, k>>} \/ SameAwaited
<1>1. PICK s \in Sock \ {"handshake"} : SetSock(c, k, s)
  BY DEF Bind, BindMismatch, BindUnknown, PrefixFails, RelayEnds, Sock
<1>2. Awaited' = Awaited \ {<<c, k>>}
  BY <1>1, SockAwaited
<1>3. CASE RelayEnds(c, k)
  <2>1. sock[c][k] = "relay" /\ UNCHANGED handshakes
    BY <1>3 DEF RelayEnds
  <2>2. <<c, k>> \notin Awaited
    BY <2>1 DEF Awaited
  <2> QED
    BY <1>2, <2>1, <2>2 DEF SameAwaited
<1>4. CASE Bind(c, k) \/ BindMismatch(c, k) \/ BindUnknown(c, k) \/ PrefixFails(c, k)
  BY <1>2, <1>4 DEF Bind, BindMismatch, BindUnknown, PrefixFails
<1> QED
  BY <1>3, <1>4
-----------------------------------------------------------------------------
(***************************************************************************)
(* The route cursors and the limits count, so these need facts about       *)
(* cardinalities.                                                          *)
(***************************************************************************)
INSTANCE FiniteSetTheorems

\* A route's cursor stays below the number of clients: next_claim_index
\* reduces it modulo the number of claims, of which there is at least one.
LEMMA CursorBound ==
    ASSUME NEW S \in SUBSET Client, NEW n \in Nat, NEW c \in S
    PROVE  /\ Advanced(S, n) \in Nat
           /\ Advanced(S, n) < Cardinality(Client)
<1>1. IsFiniteSet(S) /\ Cardinality(S) <= Cardinality(Client)
  BY FS_Subset, TunnelAssumption
<1>2. Cardinality(S) \in Nat /\ Cardinality(Client) \in Nat /\ Cardinality(S) # 0
  BY <1>1, FS_CardinalityType, FS_EmptySet, TunnelAssumption
<1>3. (n + 1) % Cardinality(S) \in 0 .. (Cardinality(S) - 1)
  BY <1>2, SMTT(30)
<1> QED
  BY <1>1, <1>2, <1>3, SMTT(30) DEF Advanced

\* The decision keeps every variable in its type (next_claim_index).
LEMMA DecideType ==
    ASSUME TypeOK, NEW k \in Conn, Decide(k)
    PROVE  TypeOK'
<1>1. PICK c \in Client :
          /\ Selected(claims[k], cursor[host[k]], c)
          /\ winner' = [winner EXCEPT ![k] = c]
  BY DEF Decide
<1>2. /\ claims[k] \in SUBSET Client /\ host[k] \in Route
      /\ cursor \in [Route -> Nat] /\ cursor[host[k]] \in Nat
  BY DEF TypeOK
<1>3. /\ Advanced(claims[k], cursor[host[k]]) \in Nat
      /\ Advanced(claims[k], cursor[host[k]]) < Cardinality(Client)
  BY <1>1, <1>2, CursorBound DEF Selected
<1>4. cursor' = [cursor EXCEPT ![host[k]] = Advanced(claims[k], @)]
  BY DEF Decide
<1>5. /\ cursor' \in [Route -> Nat]
      /\ \A r \in Route : cursor'[r] = 0 \/ cursor'[r] < Cardinality(Client)
  BY <1>2, <1>3, <1>4 DEF TypeOK
<1> QED
  BY <1>1, <1>5 DEF TypeOK, Decide, Goto, Phase, network, clients, data

\* In every reachable state of the protocol each variable has its type, and
\* every route's cursor is a valid index for some number of claimants.
THEOREM TypeCorrect == Spec => []TypeOK
<1>1. Init => TypeOK
  BY TunnelAssumption, SMTT(30) DEF Init, TypeOK, Route, Phase, Task, Sock
<1>2. TypeOK /\ [Next]_vars => TypeOK'
  <2> SUFFICES ASSUME TypeOK, [Next]_vars PROVE TypeOK'
    OBVIOUS
  <2>1. CASE UNCHANGED vars
    BY <2>1 DEF TypeOK, vars, public, locals, choice, network, clients, data
  <2>2. ASSUME NEW k \in Conn, Handler(k) PROVE TypeOK'
    BY <2>2, DetectType, CollectType, AckType, DecideType, HandlerGivesUp, GivesUpType
       DEF Handler
  <2>3. ASSUME NEW c \in Client, NEW k \in Conn, Request(c, k) \/ Callback(c, k)
        PROVE  TypeOK'
    BY <2>3, ClaimType, DialType, HandshakeType, BindType DEF Request, Callback
  <2>4. ASSUME NEW c \in Client, SessionEnds(c) \/ SessionStarts(c) \/ ClientExits(c)
        PROVE  TypeOK'
    BY <2>4, OutageType
  <2> QED
    BY <2>1, <2>2, <2>3, <2>4, RestartType DEF Next, Idle
<1> QED
  BY <1>1, <1>2, PTL DEF Spec

\* Steps that keep the owned sockets or drop one keep the permits right.
LEMMA FewerOwned ==
    ASSUME TypeOK, PermitFollowsSocket, NEW S,
           Owned' = Owned \ S, permit' = permit \ S
    PROVE  PermitFollowsSocket'
<1>1. /\ permit = IF MaxIngress = 0 THEN {} ELSE Owned
      /\ MaxIngress > 0 => Cardinality(Owned) <= MaxIngress
  BY DEF PermitFollowsSocket, Owned
<1>2. Cardinality(Owned') <= Cardinality(Owned) /\ Cardinality(Owned) \in Nat
      /\ Cardinality(Owned') \in Nat
  <2>1. IsFiniteSet(Owned)
    BY FS_Subset, TunnelAssumption DEF Owned
  <2> QED
    BY <2>1, FS_Subset, FS_CardinalityType
<1>3. /\ permit' = IF MaxIngress = 0 THEN {} ELSE Owned'
      /\ MaxIngress > 0 => Cardinality(Owned') <= MaxIngress
  BY <1>1, <1>2, TunnelAssumption, SMTT(30)
<1> QED
  BY <1>3 DEF PermitFollowsSocket, Owned

\* Accepting a public connection keeps the permits right: below the limit it
\* takes one, and at the limit the connection is dropped (accept_public_loop).
LEMMA AcceptPermit ==
    ASSUME TypeOK, PermitFollowsSocket, NEW k \in Conn, AcceptPublic(k)
    PROVE  PermitFollowsSocket'
<1>1. CASE Goto(k, "closed") /\ UNCHANGED permit
  <2>1. Owned' = Owned \ {} /\ permit' = permit \ {}
    BY <1>1 DEF TypeOK, Goto, Owned, Live, Phase, AcceptPublic
  <2> QED
    BY <2>1, FewerOwned
<1>2. CASE MaxIngress = 0 /\ UNCHANGED permit
  BY <1>2, SMTT(30) DEF PermitFollowsSocket
<1>3. CASE /\ Cardinality(permit) < MaxIngress
           /\ Goto(k, "detect")
           /\ permit' = permit \cup {k}
  <2>1. Owned' = Owned \cup {k}
    BY <1>3 DEF TypeOK, Goto, Owned, Live, Phase
  <2>2. IsFiniteSet(permit) /\ Cardinality(permit) \in Nat
    BY FS_Subset, FS_CardinalityType, TunnelAssumption DEF TypeOK
  <2>3. MaxIngress \in Nat /\ MaxIngress # 0
    BY <1>3, <2>2, TunnelAssumption, SMTT(30)
  <2>4. permit = Owned
    BY <2>3 DEF PermitFollowsSocket, Owned
  <2>5. Cardinality(Owned') <= MaxIngress
    BY <1>3, <2>1, <2>2, <2>3, <2>4, FS_AddElement, SMTT(30)
  <2> QED
    BY <1>3, <2>1, <2>3, <2>4, <2>5 DEF PermitFollowsSocket, Owned
<1> QED
  BY <1>1, <1>2, <1>3 DEF AcceptPublic

\* So does a restart of the ingress, which returns them all.
LEMMA RestartPermit ==
    ASSUME TypeOK, PermitFollowsSocket, IngressRestarts
    PROVE  PermitFollowsSocket'
<1>1. Owned' = Owned \ Owned
  BY DEF IngressRestarts, Owned, Live, Phase
<1>2. permit' = permit \ Owned
  BY DEF IngressRestarts, PermitFollowsSocket, Owned
<1> QED
  BY <1>1, <1>2, FewerOwned

\* "The permit follows the public socket through pending and relay states": in
\* every reachable state the ingress_capacity permits in use are exactly those
\* of the public sockets it still owns, and never more than the limit.
THEOREM PermitsFollowSockets == Spec => []PermitFollowsSocket
<1>1. Init => PermitFollowsSocket
  <2>1. Init => Owned = {} /\ permit = {}
    BY DEF Init, Owned, Live, Phase
  <2> QED
    BY <2>1, FS_EmptySet, TunnelAssumption, SMTT(30) DEF PermitFollowsSocket, Owned
<1>2. TypeOK /\ PermitFollowsSocket /\ [Next]_vars => PermitFollowsSocket'
  <2> SUFFICES ASSUME TypeOK, PermitFollowsSocket, [Next]_vars
               PROVE  PermitFollowsSocket'
    OBVIOUS
  <2>1. ASSUME SameOwned PROVE PermitFollowsSocket'
    BY <2>1 DEF SameOwned, Owned, PermitFollowsSocket
  <2>2. ASSUME NEW k \in Conn, DropSocket(k) PROVE PermitFollowsSocket'
    BY <2>2, DropOwned, FewerOwned
  <2>3. CASE UNCHANGED vars
    BY <2>1, <2>3 DEF vars, public, SameOwned, Owned
  <2>4. ASSUME NEW k \in Conn, Handler(k) PROVE PermitFollowsSocket'
    BY <2>1, <2>2, <2>4, AcceptPermit, HandlerOwned, HandlerGivesUp DEF Handler, GivesUp
  <2>5. ASSUME NEW c \in Client, NEW k \in Conn, Request(c, k)
        PROVE  PermitFollowsSocket'
    BY <2>1, <2>5, RequestPublic DEF SameOwned, Owned
  <2>6. ASSUME NEW c \in Client, NEW k \in Conn, Callback(c, k)
        PROVE  PermitFollowsSocket'
    BY <2>1, <2>2, <2>6, CallbackOwned
  <2>7. ASSUME NEW c \in Client, SessionEnds(c) \/ SessionStarts(c) \/ ClientExits(c)
        PROVE  PermitFollowsSocket'
    BY <2>1, <2>7, OutageOwned
  <2> QED
    BY <2>3, <2>4, <2>5, <2>6, <2>7, RestartPermit DEF Next, Idle
<1> QED
  BY <1>1, <1>2, TypeCorrect, PTL DEF Spec

\* Steps that leave the awaited prefixes or end one keep the permits right.
LEMMA FewerAwaited ==
    ASSUME TypeOK, HandshakePermitReleased, NEW S,
           Awaited' = Awaited \ S, handshakes' = handshakes \ S
    PROVE  HandshakePermitReleased'
<1>1. /\ handshakes = IF MaxHandshakes = 0 THEN {} ELSE Awaited
      /\ MaxHandshakes > 0 => Cardinality(handshakes) <= MaxHandshakes
  BY DEF HandshakePermitReleased, Awaited
<1>2. /\ Cardinality(handshakes') <= Cardinality(handshakes)
      /\ Cardinality(handshakes) \in Nat /\ Cardinality(handshakes') \in Nat
  <2>1. IsFiniteSet(handshakes)
    BY FS_Product, FS_Subset, TunnelAssumption DEF TypeOK
  <2> QED
    BY <2>1, FS_Subset, FS_CardinalityType
<1>3. /\ handshakes' = IF MaxHandshakes = 0 THEN {} ELSE Awaited'
      /\ MaxHandshakes > 0 => Cardinality(handshakes') <= MaxHandshakes
  BY <1>1, <1>2, TunnelAssumption, SMTT(30)
<1> QED
  BY <1>3 DEF HandshakePermitReleased, Awaited

\* Accepting a callback keeps them right: below the limit it takes a permit,
\* and at the limit the callback is dropped (accept_data_loop).
LEMMA AcceptHandshake ==
    ASSUME TypeOK, HandshakePermitReleased, NEW c \in Client, NEW k \in Conn,
           AcceptData(c, k)
    PROVE  HandshakePermitReleased'
<1>1. CASE SetSock(c, k, "refused") /\ UNCHANGED handshakes
  <2>1. <<c, k>> \notin Awaited
    BY DEF AcceptData, Awaited
  <2>2. Awaited' = Awaited \ {} /\ handshakes' = handshakes \ {}
    BY <1>1, <2>1, SockAwaited, SMTT(30)
  <2> QED
    BY <2>2, FewerAwaited
<1>2. CASE MaxHandshakes = 0 /\ UNCHANGED handshakes
  BY <1>2 DEF HandshakePermitReleased
<1>3. CASE /\ Cardinality(handshakes) < MaxHandshakes
           /\ SetSock(c, k, "handshake")
           /\ handshakes' = handshakes \cup {<<c, k>>}
  <2>1. Awaited' = Awaited \cup {<<c, k>>}
    BY <1>3, SockAwaited
  <2>2. IsFiniteSet(handshakes) /\ Cardinality(handshakes) \in Nat
    BY FS_Product, FS_Subset, FS_CardinalityType, TunnelAssumption DEF TypeOK
  <2>3. MaxHandshakes \in Nat /\ MaxHandshakes # 0
    BY <1>3, <2>2, TunnelAssumption, SMTT(30)
  <2>4. handshakes = Awaited
    BY <2>3 DEF HandshakePermitReleased, Awaited
  <2>5. Cardinality(handshakes') <= MaxHandshakes
    <3>1. \/ Cardinality(handshakes') = Cardinality(handshakes)
          \/ Cardinality(handshakes') = Cardinality(handshakes) + 1
      BY <1>3, <2>2, FS_AddElement
    <3> QED
      BY <1>3, <2>2, <2>3, <3>1, SMTT(30)
  <2> QED
    BY <1>3, <2>1, <2>3, <2>4, <2>5 DEF HandshakePermitReleased, Awaited
<1> QED
  BY <1>1, <1>2, <1>3 DEF AcceptData

\* Every step keeps the handshake permits right, as long as a client that is
\* about to dial has no callback socket yet.
LEMMA HandshakeStep ==
    ASSUME TypeOK, HandshakePermitReleased, [Next]_vars,
           \A c \in Client, k \in Conn : task[c][k] = "dial" => sock[c][k] = "none"
    PROVE  HandshakePermitReleased'
<1>1. ASSUME SameAwaited PROVE HandshakePermitReleased'
  BY <1>1 DEF SameAwaited, Awaited, HandshakePermitReleased
<1>2. CASE UNCHANGED vars
  BY <1>1, <1>2 DEF vars, data, SameAwaited, Awaited
<1>3. ASSUME NEW k \in Conn, Handler(k) PROVE HandshakePermitReleased'
  BY <1>1, <1>3, HandlerAwaited
<1>4. ASSUME NEW c \in Client, NEW k \in Conn, Request(c, k)
      PROVE  HandshakePermitReleased'
  BY <1>1, <1>4, RequestAwaited
<1>5. ASSUME NEW c \in Client, NEW k \in Conn, Callback(c, k)
      PROVE  HandshakePermitReleased'
  BY <1>1, <1>5, AcceptHandshake, CallbackAwaited, FewerAwaited DEF Callback
<1>6. ASSUME NEW c \in Client, SessionEnds(c) \/ SessionStarts(c) \/ ClientExits(c)
      PROVE  HandshakePermitReleased'
  BY <1>1, <1>6, OutageOwned
<1>7. CASE IngressRestarts
  <2>1. Awaited' = Awaited \ Awaited
    BY <1>7 DEF IngressRestarts, Awaited
  <2>2. handshakes' = handshakes \ Awaited
    BY <1>7 DEF IngressRestarts, HandshakePermitReleased, Awaited
  <2> QED
    BY <2>1, <2>2, FewerAwaited
<1> QED
  BY <1>2, <1>3, <1>4, <1>5, <1>6, <1>7 DEF Next, Idle
-----------------------------------------------------------------------------
(***************************************************************************)
(* What holds in every reachable state.                                    *)
(***************************************************************************)
\* The inductive invariant holds in every reachable state.
THEOREM PairingInvariant == Spec => []PairingInv
<1>1. Init => PairingInv
  <2> SUFFICES ASSUME Init PROVE PairingInv
    OBVIOUS
  <2>1. TypeOK
    BY TunnelAssumption, SMTT(30) DEF Init, TypeOK, Route, Phase, Task, Sock
  <2>2. MessagesInv /\ ChoiceInv
    BY DEF Init, MessagesInv, Messages, ChoiceInv, Unasked, Offered
  <2>3. WinnerServesHost /\ OnlyWinnerAccepted /\ PairedWithWinner
    BY DEF Init, WinnerServesHost, OnlyWinnerAccepted, PairedWithWinner
  <2>4. AnsweredBeforePending
    BY DEF Init, AnsweredBeforePending
  <2> QED
    BY <2>1, <2>2, <2>3, <2>4 DEF PairingInv
<1>2. TypeOK' /\ PairingInv /\ [Next]_vars => PairingInv'
  <2> SUFFICES ASSUME TypeOK', PairingInv, [Next]_vars PROVE PairingInv'
    OBVIOUS
  <2>1. CASE UNCHANGED vars
    <3> USE <2>1 DEF PairingInv, vars, public, locals, choice, network, clients, data
    <3>1. MessagesInv'
      BY DEF MessagesInv, Messages
    <3>2. ChoiceInv' /\ WinnerServesHost' /\ AnsweredBeforePending'
      BY DEF ChoiceInv, WinnerServesHost, AnsweredBeforePending
    <3>3. OnlyWinnerAccepted' /\ PairedWithWinner'
      BY DEF OnlyWinnerAccepted, PairedWithWinner
    <3> QED
      BY <3>1, <3>2, <3>3
  <2>2. ASSUME NEW k \in Conn, Handler(k) PROVE PairingInv'
    BY <2>2, HandlerPairing
  <2>3. ASSUME NEW c \in Client, NEW k \in Conn, Request(c, k) PROVE PairingInv'
    BY <2>3, AnswerPairing, SettlePairing, DialPairing, AlonePairing DEF Request
  <2>4. ASSUME NEW c \in Client, NEW k \in Conn, Callback(c, k) PROVE PairingInv'
    BY <2>4, AlonePairing, BindPairing DEF Callback
  <2>5. ASSUME NEW c \in Client, SessionEnds(c) \/ SessionStarts(c) \/ ClientExits(c)
        PROVE  PairingInv'
    BY <2>5, SubscriptionPairing, ExitPairing
  <2>6. CASE IngressRestarts
    BY <2>6, RestartPairing
  <2> QED
    BY <2>1, <2>2, <2>3, <2>4, <2>5, <2>6 DEF Next, Idle
<1> QED
  BY <1>1, <1>2, TypeCorrect, PTL DEF Spec

\* A public connection is only ever relayed to the client its handler selected,
\* and a callback only to the connection its prefix names (handle_client_data):
\* for any number of connections and clients.
THEOREM WinnerOnly == Spec => []PairedWithWinner
<1>1. PairingInv => PairedWithWinner
  BY DEF PairingInv
<1> QED
  BY <1>1, PairingInvariant, PTL

\* Nobody but the selected client is ever told to call back for a connection,
\* and nobody else dials (broadcast_and_wait_for_claim, handle_request).
THEOREM AcceptedOnce == Spec => []OnlyWinnerAccepted
<1>1. PairingInv => OnlyWinnerAccepted
  BY DEF PairingInv
<1> QED
  BY <1>1, PairingInvariant, PTL

\* The selected client has a backend rule for the connection's hostname,
\* although the ingress knows no backend rules.
THEOREM WinnerEligible == Spec => []WinnerServesHost
<1>1. PairingInv => WinnerServesHost
  BY DEF PairingInv
<1> QED
  BY <1>1, PairingInvariant, PTL

\* All collected claimants have been sent their decision when a connection
\* becomes pending (publish_claim_ack).
THEOREM ClaimantsAnswered == Spec => []AnsweredBeforePending
<1>1. PairingInv => AnsweredBeforePending
  BY DEF PairingInv
<1> QED
  BY <1>1, PairingInvariant, PTL

\* A handshake permit is held exactly while a callback's prefix is awaited, and
\* there are never more than the limit allows (accept_data_loop,
\* handle_client_data).  It rests on the pairing invariant: a client that is
\* about to dial has no callback socket yet.
THEOREM HandshakesReleased == Spec => []HandshakePermitReleased
<1>1. Init => HandshakePermitReleased
  <2>1. Init => Awaited = {} /\ handshakes = {}
    BY SMTT(30) DEF Init, Awaited
  <2> QED
    BY <2>1, FS_EmptySet, TunnelAssumption, SMTT(30) DEF HandshakePermitReleased, Awaited
<1>2. PairingInv /\ HandshakePermitReleased /\ [Next]_vars => HandshakePermitReleased'
  <2> SUFFICES ASSUME PairingInv, HandshakePermitReleased, [Next]_vars
               PROVE  HandshakePermitReleased'
    OBVIOUS
  <2>1. \A c \in Client, k \in Conn : task[c][k] = "dial" => sock[c][k] = "none"
    BY DEF PairingInv, MessagesInv, Messages
  <2>2. TypeOK
    BY DEF PairingInv
  <2> QED
    BY <2>1, <2>2, HandshakeStep
<1> QED
  BY <1>1, <1>2, PairingInvariant, PTL DEF Spec

\* The protocol implements Pairing, for any number of connections and clients:
\* a connection is offered to one client, is joined to that client and to no
\* other, and is never revived once it is dropped.
THEOREM TunnelImplementsPairing == Spec => ImplementsPairing
<1>1. Init /\ PairingInv => Abstract!PairingInit
  <2> SUFFICES ASSUME Init, PairingInv PROVE Abstract!PairingInit
    OBVIOUS
  <2>1. StatusOf = [k \in Conn |-> "idle"]
    BY StatusValue DEF Init, StatusOf
  <2>2. Peers = [k \in Conn |-> {}]
    BY DEF Init, Peers
  <2>3. winner = [k \in Conn |-> NoClient]
    BY DEF Init
  <2> QED
    BY <2>1, <2>2, <2>3 DEF Abstract!PairingInit, StatusOf, Peers
<1>2. PairingInv /\ PairingInv' /\ [Next]_vars => [Abstract!PairingNext]_(Abstract!pairingVars)
  <2> SUFFICES ASSUME PairingInv, PairingInv', [Next]_vars
               PROVE  [Abstract!PairingNext]_(Abstract!pairingVars)
    OBVIOUS
  <2>1. ASSUME UNCHANGED <<phase, winner>>
        PROVE  [Abstract!PairingNext]_(Abstract!pairingVars)
    BY <2>1, StatusKept
  <2>2. CASE UNCHANGED vars
    BY <2>1, <2>2 DEF vars, public, choice
  <2>3. ASSUME NEW c \in Client, NEW k \in Conn, Request(c, k)
        PROVE  [Abstract!PairingNext]_(Abstract!pairingVars)
    BY <2>1, <2>3, RequestPublic
  <2>4. ASSUME NEW c \in Client, SessionEnds(c) \/ SessionStarts(c) \/ ClientExits(c)
        PROVE  [Abstract!PairingNext]_(Abstract!pairingVars)
    BY <2>1, <2>4 DEF SessionEnds, SessionStarts, ClientExits, public, choice
  <2> QED
    BY <2>2, <2>3, <2>4, HandlerImplements, CallbackImplements, RestartImplements
       DEF Next, Idle
<1> QED
  BY <1>1, <1>2, PairingInvariant, PTL DEF Spec, ImplementsPairing, Abstract!PairingSpec
=============================================================================
