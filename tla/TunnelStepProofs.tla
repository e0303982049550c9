-------------------------- MODULE TunnelStepProofs --------------------------
(***************************************************************************)
(* The steps of the proof that a connection is only ever paired with the   *)
(* client that was chosen for it: what the helpers of Tunnel do to the     *)
(* parts of the inductive invariant, and that every step of a handler in   *)
(* the ingress, of a request task in a client and of a callback, and every *)
(* outage, keeps it. And the steps of the proof that the protocol          *)
(* implements Pairing.                                                     *)
(***************************************************************************)
EXTENDS TunnelInvariant, TLAPS

\* A leaf is proved by Zenon, or by SMT where it says so: where it rests on
\* arithmetic or on what an update of a function leaves behind.
USE ZenonT(60), SMTT(30)
-----------------------------------------------------------------------------
(***************************************************************************)
(* The helpers, the handler of a connection and the request tasks.         *)
(***************************************************************************)
\* What an update of one task, or of one callback socket, leaves behind.
TaskBecomes(c, k, t) ==
    \A d \in Client, j \in Conn :
        task'[d][j] = IF d = c /\ j = k THEN t ELSE task[d][j]

SockBecomes(c, k, s) ==
    \A d \in Client, j \in Conn :
        sock'[d][j] = IF d = c /\ j = k THEN s ELSE sock[d][j]

\* SetTask changes the task it names and no other.
LEMMA SetTaskValue ==
    ASSUME TypeOK, NEW c \in Client, NEW k \in Conn, NEW t, SetTask(c, k, t)
    PROVE  TaskBecomes(c, k, t)
<1> SUFFICES ASSUME NEW d \in Client, NEW j \in Conn
             PROVE  task'[d][j] = IF d = c /\ j = k THEN t ELSE task[d][j]
  BY DEF TaskBecomes
<1>1. task \in [Client -> [Conn -> Task]] /\ task' = [task EXCEPT ![c][k] = t]
  BY DEF TypeOK, SetTask
<1> QED
  BY <1>1

\* SetSock changes the socket it names and no other.
LEMMA SetSockValue ==
    ASSUME TypeOK, NEW c \in Client, NEW k \in Conn, NEW s, SetSock(c, k, s)
    PROVE  SockBecomes(c, k, s)
<1> SUFFICES ASSUME NEW d \in Client, NEW j \in Conn
             PROVE  sock'[d][j] = IF d = c /\ j = k THEN s ELSE sock[d][j]
  BY DEF SockBecomes
<1>1. sock \in [Client -> [Conn -> Sock]] /\ sock' = [sock EXCEPT ![c][k] = s]
  BY DEF TypeOK, SetSock
<1> QED
  BY <1>1

\* MessagesInv survives a step of one request task that has left the state
\* before the request was received.
LEMMA TaskMessages ==
    ASSUME MessagesInv, NEW c \in Client, NEW k \in Conn, NEW t,
           TaskBecomes(c, k, t), phase[k] \notin Unasked,
           requests' \subseteq requests, <<c, k>> \notin requests',
           \A m \in claimMsgs' : m \in claimMsgs \/ m = <<c, k>>,
           <<c, k>> \in claimMsgs' =>
               phase[k] \in {"await", "collect"} /\ host[k] \in Serves[c],
           sock[c][k] # "none" => t \in {"bridge", "done"},
           UNCHANGED <<phase, host, sock>>
    PROVE  MessagesInv'
<1> SUFFICES ASSUME NEW d \in Client, NEW j \in Conn PROVE Messages(d, j)'
  BY DEF MessagesInv
<1>1. Messages(d, j)
  BY DEF MessagesInv
<1>2. task'[d][j] = IF d = c /\ j = k THEN t ELSE task[d][j]
  BY DEF TaskBecomes
<1>3. CASE d = c /\ j = k
  BY <1>1, <1>2, <1>3 DEF Messages
<1>4. CASE ~(d = c /\ j = k)
  <2>1. <<d, j>> \in claimMsgs' => <<d, j>> \in claimMsgs
    BY <1>4
  <2> QED
    BY <1>1, <1>2, <1>4, <2>1 DEF Messages
<1> QED
  BY <1>3, <1>4

\* MessagesInv survives a step of one callback socket whose request task has
\* reached its end or its relay.
LEMMA SockMessages ==
    ASSUME MessagesInv, NEW c \in Client, NEW k \in Conn, NEW s,
           SockBecomes(c, k, s), task[c][k] \in {"bridge", "done"},
           \A j \in Conn : \/ phase'[j] = phase[j]
                           \/ phase'[j] \notin Unasked \cup {"await", "collect"},
           \A d \in Client, j \in Conn : <<d, j>> \in claimMsgs' =>
               <<d, j>> \in claimMsgs /\ phase'[j] = phase[j],
           UNCHANGED <<host, requests, task>>
    PROVE  MessagesInv'
<1> SUFFICES ASSUME NEW d \in Client, NEW j \in Conn PROVE Messages(d, j)'
  BY DEF MessagesInv
<1>1. Messages(d, j)
  BY DEF MessagesInv
<1>2. sock'[d][j] = IF d = c /\ j = k THEN s ELSE sock[d][j]
  BY DEF SockBecomes
<1> QED
  BY <1>1, <1>2 DEF Messages, Unasked

\* What a step of the handler of k does to the phases, hosts and messages.
PhaseStep(k) ==
    /\ \A j \in Conn \ {k} : phase'[j] = phase[j] /\ host'[j] = host[j]
    /\ phase'[k] \in Unasked => phase[k] \in Unasked
    /\ host'[k] = host[k] \/ phase[k] \in Unasked
    /\ \A d \in Client, j \in Conn : <<d, j>> \in requests' =>
          \/ <<d, j>> \in requests
          \/ j = k /\ phase[k] \in Unasked /\ phase'[k] \notin Unasked
    /\ \A d \in Client, j \in Conn : <<d, j>> \in claimMsgs' =>
          <<d, j>> \in claimMsgs /\ (j = k => phase'[k] \in {"await", "collect"})
    /\ UNCHANGED <<task, sock>>

\* MessagesInv survives a step of a handler that does not go back to the time
\* before its request.
LEMMA PhaseMessages ==
    ASSUME MessagesInv, NEW k \in Conn, PhaseStep(k)
    PROVE  MessagesInv'
<1> SUFFICES ASSUME NEW d \in Client, NEW j \in Conn PROVE Messages(d, j)'
  BY DEF MessagesInv
<1>1. Messages(d, j)
  BY DEF MessagesInv
<1>2. CASE j # k
  <2>1. /\ phase'[j] = phase[j] /\ host'[j] = host[j]
        /\ <<d, j>> \in requests' => <<d, j>> \in requests
        /\ <<d, j>> \in claimMsgs' => <<d, j>> \in claimMsgs
        /\ UNCHANGED <<task, sock>>
    BY <1>2 DEF PhaseStep
  <2> QED
    BY <1>1, <2>1 DEF Messages
<1>3. CASE j = k
  <2>1. /\ phase'[k] \in Unasked => phase[k] \in Unasked
        /\ host'[k] = host[k] \/ phase[k] \in Unasked
        /\ <<d, k>> \in requests' =>
              \/ <<d, k>> \in requests
              \/ phase[k] \in Unasked /\ phase'[k] \notin Unasked
        /\ <<d, k>> \in claimMsgs' =>
              <<d, k>> \in claimMsgs /\ phase'[k] \in {"await", "collect"}
        /\ UNCHANGED <<task, sock>>
    BY DEF PhaseStep
  <2> QED
    BY <1>1, <1>3, <2>1 DEF Messages, Unasked
<1> QED
  BY <1>2, <1>3

\* OnlyWinnerAccepted survives a step of one request task that starts to dial
\* only as the winner.
LEMMA TaskAccepted ==
    ASSUME OnlyWinnerAccepted, NEW c \in Client, NEW k \in Conn, NEW t,
           TaskBecomes(c, k, t), t \in {"dial", "bridge"} => winner[k] = c,
           acks' \subseteq acks, UNCHANGED winner
    PROVE  OnlyWinnerAccepted'
<1>1. ASSUME NEW a \in acks', a.accepted PROVE winner'[a.conn] = a.to
  BY <1>1 DEF OnlyWinnerAccepted
<1>2. ASSUME NEW d \in Client, NEW j \in Conn, task'[d][j] \in {"dial", "bridge"}
      PROVE  winner'[j] = d
  <2>1. task'[d][j] = IF d = c /\ j = k THEN t ELSE task[d][j]
    BY DEF TaskBecomes
  <2>2. task[d][j] \in {"dial", "bridge"} => winner[j] = d
    BY DEF OnlyWinnerAccepted
  <2> QED
    BY <1>2, <2>1, <2>2
<1> QED
  BY <1>1, <1>2 DEF OnlyWinnerAccepted

\* PairedWithWinner survives a step of one callback socket and its connection
\* that leaves the socket relayed exactly if it is the winner's and the
\* connection is, and changes nothing for the other clients.
LEMMA SockPaired ==
    ASSUME PairedWithWinner, NEW c \in Client, NEW k \in Conn, NEW s,
           SockBecomes(c, k, s), UNCHANGED winner,
           \A j \in Conn \ {k} : phase'[j] = phase[j],
           s = "relay" <=> phase'[k] = "relay" /\ winner[k] = c,
           \A d \in Client \ {c} : winner[k] = d =>
               (phase'[k] = "relay" <=> phase[k] = "relay")
    PROVE  PairedWithWinner'
<1> SUFFICES ASSUME NEW d \in Client, NEW j \in Conn
             PROVE  sock'[d][j] = "relay" <=> phase'[j] = "relay" /\ winner'[j] = d
  BY DEF PairedWithWinner
<1>1. sock'[d][j] = IF d = c /\ j = k THEN s ELSE sock[d][j]
  BY DEF SockBecomes
<1>2. sock[d][j] = "relay" <=> phase[j] = "relay" /\ winner[j] = d
  BY DEF PairedWithWinner
<1>3. CASE j # k
  BY <1>1, <1>2, <1>3
<1>4. CASE j = k /\ d = c
  BY <1>1, <1>4
<1>5. CASE j = k /\ d # c
  BY <1>1, <1>2, <1>5, SMTT(30)
<1> QED
  BY <1>3, <1>4, <1>5

\* What the invariant says of one connection beside its messages.
ConnInv(k) ==
    /\ \A c \in claims[k] : host[k] \in Serves[c]
    /\ claims[k] # {} => phase[k] \in Offered \cup {"collect"}
    /\ acked[k] \subseteq claims[k]
    /\ winner[k] # NoClient => phase[k] \in Offered \cup {"closed"}
    /\ phase[k] \in Offered => winner[k] \in claims[k]
    /\ winner[k] # NoClient => host[k] \in Serves[winner[k]]
    /\ phase[k] \in {"granted", "pending", "relay"} =>
          acked[k] = claims[k] /\ winner[k] \in claims[k]

\* It says this of every connection.
LEMMA ConnInvAt ==
    ASSUME PairingInv, NEW k \in Conn
    PROVE  ConnInv(k)
<1>1. ChoiceInv /\ WinnerServesHost /\ AnsweredBeforePending
  BY DEF PairingInv
<1> QED
  BY <1>1 DEF ChoiceInv, WinnerServesHost, AnsweredBeforePending, ConnInv

\* A step leaves everything the ingress knows of the other connections alone.
Others(k) ==
    \A j \in Conn \ {k} :
        /\ phase'[j] = phase[j]
        /\ host'[j] = host[j]
        /\ claims'[j] = claims[j]
        /\ acked'[j] = acked[j]
        /\ winner'[j] = winner[j]

\* Such a step has to be looked at for its own connection only.
LEMMA OthersKept ==
    ASSUME PairingInv, NEW k \in Conn, Others(k), ConnInv(k)'
    PROVE  ChoiceInv' /\ WinnerServesHost' /\ AnsweredBeforePending'
<1>1. ASSUME NEW j \in Conn PROVE ConnInv(j)'
  <2>1. CASE j = k
    BY <2>1
  <2>2. CASE j # k
    <3>1. ConnInv(j)
      BY ConnInvAt
    <3>2. /\ phase'[j] = phase[j] /\ host'[j] = host[j] /\ claims'[j] = claims[j]
          /\ acked'[j] = acked[j] /\ winner'[j] = winner[j]
      BY <2>2 DEF Others
    <3> QED
      BY <3>1, <3>2 DEF ConnInv
  <2> QED
    BY <2>1, <2>2
<1>2. ChoiceInv'
  BY <1>1 DEF ChoiceInv, ConnInv
<1>3. WinnerServesHost'
  BY <1>1 DEF WinnerServesHost, ConnInv
<1>4. AnsweredBeforePending'
  BY <1>1 DEF AnsweredBeforePending, ConnInv
<1> QED
  BY <1>2, <1>3, <1>4

\* The acceptances in flight stay those of the winners while no winner is
\* replaced and none is added.
LEMMA AcceptedKept ==
    ASSUME TypeOK, OnlyWinnerAccepted, acks' \subseteq acks, UNCHANGED task,
           \A j \in Conn : winner'[j] = winner[j] \/ winner[j] = NoClient
    PROVE  OnlyWinnerAccepted'
<1>1. ASSUME NEW a \in acks', a.accepted PROVE winner'[a.conn] = a.to
  <2>1. a \in acks /\ winner[a.conn] = a.to
    BY <1>1 DEF OnlyWinnerAccepted
  <2>2. a.to \in Client /\ a.conn \in Conn
    BY <2>1 DEF TypeOK, Ack
  <2> QED
    BY <2>1, <2>2, TunnelAssumption
<1>2. ASSUME NEW d \in Client, NEW j \in Conn, task'[d][j] \in {"dial", "bridge"}
      PROVE  winner'[j] = d
  <2>1. winner[j] = d
    BY <1>2 DEF OnlyWinnerAccepted
  <2> QED
    BY <2>1, TunnelAssumption
<1> QED
  BY <1>1, <1>2 DEF OnlyWinnerAccepted

\* No callback socket is relayed for a connection that is not.
LEMMA PairedKept ==
    ASSUME PairedWithWinner, NEW k \in Conn, Others(k), UNCHANGED sock,
           phase[k] # "relay", phase'[k] # "relay"
    PROVE  PairedWithWinner'
<1> SUFFICES ASSUME NEW d \in Client, NEW j \in Conn
             PROVE  sock'[d][j] = "relay" <=> phase'[j] = "relay" /\ winner'[j] = d
  BY DEF PairedWithWinner
<1>1. sock[d][j] = "relay" <=> phase[j] = "relay" /\ winner[j] = d
  BY DEF PairedWithWinner
<1>2. CASE j = k
  BY <1>1, <1>2
<1>3. CASE j # k
  <2>1. phase'[j] = phase[j] /\ winner'[j] = winner[j]
    BY <1>3 DEF Others
  <2> QED
    BY <1>1, <2>1
<1> QED
  BY <1>2, <1>3

\* A step of a handler keeps the invariant if it keeps what the invariant says
\* of its own connection, announces nobody but the winner and does not revise
\* a choice.
LEMMA HandlerStep ==
    ASSUME PairingInv, TypeOK', NEW k \in Conn, Others(k), PhaseStep(k),
           phase[k] # "relay", phase'[k] # "relay", ConnInv(k)',
           OnlyWinnerAccepted'
    PROVE  PairingInv'
<1>1. UNCHANGED sock /\ MessagesInv /\ PairedWithWinner
  BY DEF PairingInv, PhaseStep
<1>2. MessagesInv'
  BY <1>1, PhaseMessages
<1>3. PairedWithWinner'
  BY <1>1, PairedKept
<1> QED
  BY <1>2, <1>3, OthersKept DEF PairingInv

\* Dropping a public socket that is not yet relayed keeps the invariant: this
\* is what every error return of handle_ingress and the expiry of a pending
\* entry come to.
LEMMA DropPairing ==
    ASSUME PairingInv, TypeOK', NEW k \in Conn, phase[k] \notin {"new", "relay"},
           DropSocket(k), UNCHANGED <<host, choice, network, clients, sock>>
    PROVE  PairingInv'
<1>1. TypeOK /\ OnlyWinnerAccepted
  BY DEF PairingInv
<1>2. /\ \A j \in Conn : phase'[j] = IF j = k THEN "closed" ELSE phase[j]
      /\ \A j \in Conn : claims'[j] = IF j = k THEN {} ELSE claims[j]
      /\ \A j \in Conn : acked'[j] = IF j = k THEN {} ELSE acked[j]
      /\ UNCHANGED <<host, winner, requests, acks, task, sock>>
  BY <1>1 DEF TypeOK, DropSocket, Goto, choice, network, clients
<1>3. \A d \in Client, j \in Conn :
          <<d, j>> \in claimMsgs' => <<d, j>> \in claimMsgs /\ j # k
  BY DEF DropSocket
<1>4. Others(k)
  BY <1>2 DEF Others
<1>5. PhaseStep(k)
  BY <1>2, <1>3 DEF PhaseStep, Unasked
<1>6. ConnInv(k)'
  <2>1. ConnInv(k)
    BY ConnInvAt
  <2> QED
    BY <1>2, <2>1 DEF ConnInv, Offered
<1>7. OnlyWinnerAccepted'
  BY <1>1, <1>2, AcceptedKept
<1>8. phase[k] # "relay" /\ phase'[k] # "relay"
  BY <1>2
<1> QED
  BY <1>4, <1>5, <1>6, <1>7, <1>8, HandlerStep

\* A connection that nobody was asked about has no claim in flight, and a
\* claim in flight was made by a client with a rule for the hostname.
LEMMA ClaimInFlight ==
    ASSUME PairingInv, NEW d \in Client, NEW k \in Conn, <<d, k>> \in claimMsgs
    PROVE  phase[k] \in {"await", "collect"} /\ host[k] \in Serves[d]
BY DEF PairingInv, MessagesInv, Messages

\* Accepting and inspecting a connection, and asking the clients, keep the
\* invariant (accept_public_loop, handle_ingress).
LEMMA AskPairing ==
    ASSUME PairingInv, TypeOK', NEW k \in Conn,
           \/ AcceptPublic(k)
           \/ \E h \in Route : DetectHostname(k, h)
           \/ Broadcast(k)
    PROVE  PairingInv'
<1>0. TypeOK /\ OnlyWinnerAccepted /\ ConnInv(k)
  BY ConnInvAt DEF PairingInv
<1>1. /\ phase[k] \in Unasked
      /\ phase'[k] \in Unasked \cup {"await", "closed"}
      /\ \A j \in Conn \ {k} : phase'[j] = phase[j] /\ host'[j] = host[j]
      /\ host'[k] = host[k] \/ phase'[k] \in Unasked
      /\ UNCHANGED <<claims, acked, claimMsgs, winner, acks, task, sock>>
  <2>1. CASE AcceptPublic(k)
    BY <1>0, <2>1 DEF AcceptPublic, Goto, TypeOK, Unasked, locals, choice, network,
       clients, data
  <2>2. ASSUME NEW h \in Route, DetectHostname(k, h)
        PROVE  /\ phase[k] \in Unasked
               /\ phase'[k] \in Unasked
               /\ \A j \in Conn \ {k} : phase'[j] = phase[j] /\ host'[j] = host[j]
               /\ UNCHANGED <<claims, acked, claimMsgs, winner, acks, task, sock>>
    BY <1>0, <2>2 DEF DetectHostname, Goto, TypeOK, Unasked, locals, choice, network,
       clients, data
  <2>3. CASE Broadcast(k)
    BY <1>0, <2>3 DEF Broadcast, Goto, TypeOK, Unasked, locals, choice, clients, data
  <2> QED
    BY <2>1, <2>2, <2>3
<1>2. \A d \in Client, j \in Conn : <<d, j>> \in requests' =>
          <<d, j>> \in requests \/ (j = k /\ phase'[k] \notin Unasked)
  <2>1. CASE Broadcast(k)
    <3>1. PICK reached \in SUBSET Recipients(host[k]) :
              requests' = requests \cup (reached \X {k})
      BY <2>1 DEF Broadcast
    <3>2. phase'[k] = "await"
      BY <1>0, <2>1 DEF Broadcast, Goto, TypeOK
    <3> QED
      BY <3>1, <3>2 DEF Unasked
  <2>2. CASE requests' = requests
    BY <2>2
  <2> QED
    BY <2>1, <2>2 DEF AcceptPublic, DetectHostname, network
<1>3. \A d \in Client : <<d, k>> \notin claimMsgs
  BY <1>1, ClaimInFlight DEF Unasked
<1>4. Others(k)
  BY <1>1 DEF Others
<1>5. PhaseStep(k)
  BY <1>1, <1>2, <1>3 DEF PhaseStep
<1>6. ConnInv(k)'
  <2>1. winner[k] = NoClient /\ claims[k] = {}
    BY <1>0, <1>1 DEF ConnInv, Unasked, Offered
  <2>2. phase'[k] \notin Offered
    BY <1>1 DEF Unasked, Offered
  <2> QED
    BY <1>0, <1>1, <2>1, <2>2 DEF ConnInv, Offered
<1>7. OnlyWinnerAccepted'
  BY <1>0, <1>1, AcceptedKept
<1>8. phase[k] # "relay" /\ phase'[k] # "relay"
  BY <1>1 DEF Unasked
<1> QED
  BY <1>4, <1>5, <1>6, <1>7, <1>8, HandlerStep

\* Collecting claims keeps the invariant: every claimant has a rule for the
\* connection's hostname (broadcast_and_wait_for_claim).
LEMMA CollectPairing ==
    ASSUME PairingInv, TypeOK', NEW k \in Conn, NEW c \in Client,
           CollectClaim(k, c) \/ CollectInvalid(k, c)
    PROVE  PairingInv'
<1>0. TypeOK /\ OnlyWinnerAccepted /\ ConnInv(k)
  BY ConnInvAt DEF PairingInv
<1>1. /\ phase[k] \in {"await", "collect"}
      /\ \A j \in Conn : phase'[j] = IF j = k THEN "collect" ELSE phase[j]
      /\ \A j \in Conn \ {k} : claims'[j] = claims[j]
      /\ claimMsgs' \subseteq claimMsgs
      /\ UNCHANGED <<host, acked, winner, requests, acks, task, sock>>
  BY <1>0 DEF CollectClaim, CollectInvalid, Goto, TypeOK, choice, network, clients,
     data
<1>2. /\ claims[k] \subseteq claims'[k]
      /\ \A d \in claims'[k] : d \in claims[k] \/ host[k] \in Serves[d]
  <2>1. CASE CollectClaim(k, c)
    <3>1. host[k] \in Serves[c]
      BY <2>1, ClaimInFlight DEF CollectClaim
    <3>2. claims'[k] = claims[k] \cup {c}
      BY <1>0, <2>1 DEF CollectClaim, TypeOK
    <3> QED
      BY <3>1, <3>2
  <2>2. CASE CollectInvalid(k, c)
    BY <2>2 DEF CollectInvalid
  <2> QED
    BY <2>1, <2>2
<1>3. Others(k)
  BY <1>1 DEF Others
<1>4. PhaseStep(k)
  BY <1>1 DEF PhaseStep, Unasked
<1>5. ConnInv(k)'
  BY <1>0, <1>1, <1>2 DEF ConnInv, Offered
<1>6. OnlyWinnerAccepted'
  BY <1>0, <1>1, AcceptedKept
<1>7. phase[k] # "relay" /\ phase'[k] # "relay"
  BY <1>1
<1> QED
  BY <1>3, <1>4, <1>5, <1>6, <1>7, HandlerStep

\* The decision keeps the invariant: it is made once, for one of the clients
\* whose claims were collected (next_claim_index).
LEMMA DecidePairing ==
    ASSUME PairingInv, TypeOK', NEW k \in Conn, Decide(k)
    PROVE  PairingInv'
<1>0. TypeOK /\ OnlyWinnerAccepted /\ ConnInv(k)
  BY ConnInvAt DEF PairingInv
<1>1. PICK c \in claims[k] : winner' = [winner EXCEPT ![k] = c]
  BY DEF Decide, Selected
<1>2. /\ phase[k] = "collect"
      /\ \A j \in Conn : phase'[j] = IF j = k THEN "ack" ELSE phase[j]
      /\ UNCHANGED <<host, claims, acked, requests, acks, task, sock>>
  BY <1>0 DEF Decide, Goto, TypeOK, network, clients, data
<1>3. \A d \in Client, j \in Conn :
          <<d, j>> \in claimMsgs' => <<d, j>> \in claimMsgs /\ j # k
  BY DEF Decide
<1>4. winner'[k] = c /\ \A j \in Conn \ {k} : winner'[j] = winner[j]
  BY <1>0, <1>1 DEF TypeOK
<1>5. winner[k] = NoClient
  BY <1>0, <1>2 DEF ConnInv, Offered
<1>6. Others(k)
  BY <1>2, <1>4 DEF Others
<1>7. PhaseStep(k)
  BY <1>2, <1>3 DEF PhaseStep, Unasked
<1>8. ConnInv(k)'
  BY <1>0, <1>2, <1>4 DEF ConnInv, Offered
<1>9. OnlyWinnerAccepted'
  BY <1>0, <1>2, <1>4, <1>5, AcceptedKept
<1>10. phase[k] # "relay" /\ phase'[k] # "relay"
  BY <1>2
<1> QED
  BY <1>6, <1>7, <1>8, <1>9, <1>10, HandlerStep

\* Answering the claimants keeps the invariant: only the winner is accepted,
\* and the connection is granted once the last claimant was answered.
LEMMA AckPairing ==
    ASSUME PairingInv, TypeOK', NEW k \in Conn, NEW c \in Client, PublishAck(k, c)
    PROVE  PairingInv'
<1>0. TypeOK /\ OnlyWinnerAccepted /\ ConnInv(k)
  BY ConnInvAt DEF PairingInv
<1>1. /\ phase[k] = "ack"
      /\ c \in claims[k]
      /\ \A j \in Conn \ {k} : phase'[j] = phase[j] /\ acked'[j] = acked[j]
      /\ acked'[k] = acked[k] \cup {c}
      /\ UNCHANGED <<host, claims, claimMsgs, winner, requests, task, sock>>
  BY <1>0 DEF PublishAck, Goto, TypeOK, choice, clients, data
<1>2. phase'[k] = IF claims[k] \subseteq acked'[k] THEN "granted" ELSE "ack"
  BY <1>0 DEF PublishAck, Goto, TypeOK
<1>3. \A a \in acks' : a \in acks
          \/ a = [to |-> c, conn |-> k, accepted |-> c = winner[k]]
  BY DEF PublishAck
<1>4. \A d \in Client : <<d, k>> \notin claimMsgs
  BY <1>1, ClaimInFlight
<1>5. Others(k)
  BY <1>1 DEF Others
<1>6. PhaseStep(k)
  BY <1>1, <1>2, <1>4 DEF PhaseStep, Unasked
<1>7. ConnInv(k)'
  <2>1. acked'[k] \subseteq claims[k]
    BY <1>0, <1>1 DEF ConnInv
  <2>2. phase'[k] = "ack" \/ (phase'[k] = "granted" /\ acked'[k] = claims[k])
    BY <1>2, <2>1
  <2>3. winner[k] \in claims[k]
    BY <1>0, <1>1 DEF ConnInv, Offered
  <2> QED
    BY <1>0, <1>1, <2>1, <2>2, <2>3 DEF ConnInv, Offered
<1>8. OnlyWinnerAccepted'
  <2>1. ASSUME NEW a \in acks', a.accepted PROVE winner'[a.conn] = a.to
    <3>1. CASE a \in acks
      BY <1>0, <1>1, <2>1, <3>1 DEF OnlyWinnerAccepted
    <3>2. CASE a = [to |-> c, conn |-> k, accepted |-> c = winner[k]]
      <4>1. a.to = c /\ a.conn = k /\ (a.accepted <=> c = winner[k])
        BY <3>2
      <4> QED
        BY <1>1, <2>1, <4>1
    <3> QED
      BY <1>3, <3>1, <3>2
  <2>2. \A d \in Client, j \in Conn :
            task'[d][j] \in {"dial", "bridge"} => winner'[j] = d
    BY <1>0, <1>1 DEF OnlyWinnerAccepted
  <2> QED
    BY <2>1, <2>2 DEF OnlyWinnerAccepted
<1>9. phase[k] # "relay" /\ phase'[k] # "relay"
  BY <1>1, <1>2
<1> QED
  BY <1>5, <1>6, <1>7, <1>8, <1>9, HandlerStep

\* Moving the socket into the pending map keeps the invariant.
LEMMA PendingPairing ==
    ASSUME PairingInv, TypeOK', NEW k \in Conn, InsertPending(k)
    PROVE  PairingInv'
<1>0. TypeOK /\ OnlyWinnerAccepted /\ ConnInv(k)
  BY ConnInvAt DEF PairingInv
<1>1. /\ phase[k] = "granted"
      /\ \A j \in Conn : phase'[j] = IF j = k THEN "pending" ELSE phase[j]
      /\ UNCHANGED <<host, claims, acked, claimMsgs, winner, requests, acks, task, sock>>
  BY <1>0 DEF InsertPending, Goto, TypeOK, locals, choice, network, clients, data
<1>2. \A d \in Client : <<d, k>> \notin claimMsgs
  BY <1>1, ClaimInFlight
<1>3. Others(k)
  BY <1>1 DEF Others
<1>4. PhaseStep(k)
  BY <1>1, <1>2 DEF PhaseStep, Unasked
<1>5. ConnInv(k)'
  BY <1>0, <1>1 DEF ConnInv, Offered
<1>6. OnlyWinnerAccepted'
  BY <1>0, <1>1, AcceptedKept
<1>7. phase[k] # "relay" /\ phase'[k] # "relay"
  BY <1>1
<1> QED
  BY <1>3, <1>4, <1>5, <1>6, <1>7, HandlerStep

\* Every step of a connection's handler keeps the invariant.
LEMMA HandlerPairing ==
    ASSUME PairingInv, TypeOK', NEW k \in Conn, Handler(k)
    PROVE  PairingInv'
<1>1. CASE \/ AcceptPublic(k)
           \/ \E h \in Route : DetectHostname(k, h)
           \/ Broadcast(k)
  BY <1>1, AskPairing
<1>2. ASSUME NEW c \in Client, CollectClaim(k, c) \/ CollectInvalid(k, c)
      PROVE  PairingInv'
  BY <1>2, CollectPairing
<1>3. CASE Decide(k)
  BY <1>3, DecidePairing
<1>4. ASSUME NEW c \in Client, PublishAck(k, c) PROVE PairingInv'
  BY <1>4, AckPairing
<1>5. CASE InsertPending(k)
  BY <1>5, PendingPairing
<1>6. CASE \/ DetectFails(k) \/ PassthroughEnds(k) \/ BroadcastFails(k)
           \/ ClaimTimeout(k) \/ DecideFails(k) \/ PublishAckFails(k)
           \/ ExpirePending(k)
  <2>1. /\ phase[k] \notin {"new", "relay"}
        /\ DropSocket(k)
        /\ UNCHANGED <<host, choice, network, clients, data>>
    BY <1>6 DEF DetectFails, PassthroughEnds, BroadcastFails, ClaimTimeout,
       DecideFails, PublishAckFails, ExpirePending
  <2>2. UNCHANGED sock
    BY <2>1 DEF data
  <2> QED
    BY <2>1, <2>2, DropPairing
<1> QED
  BY <1>1, <1>2, <1>3, <1>4, <1>5, <1>6 DEF Handler
-----------------------------------------------------------------------------
(***************************************************************************)
(* The steps of a client's request task keep the invariant.                 *)
(***************************************************************************)
\* A step that leaves what the ingress knows of the connections alone keeps
\* what the invariant says of them.
LEMMA ConnsKept ==
    ASSUME PairingInv, UNCHANGED <<phase, host, claims, acked, winner>>
    PROVE  ChoiceInv' /\ WinnerServesHost' /\ AnsweredBeforePending'
<1>1. ChoiceInv /\ WinnerServesHost /\ AnsweredBeforePending
  BY DEF PairingInv
<1>2. ChoiceInv'
  BY <1>1 DEF ChoiceInv
<1>3. WinnerServesHost'
  BY <1>1 DEF WinnerServesHost
<1>4. AnsweredBeforePending'
  BY <1>1 DEF AnsweredBeforePending
<1> QED
  BY <1>2, <1>3, <1>4

\* A step of a request task keeps the invariant if the task was asked before
\* and dials only as the winner.
LEMMA TaskStep ==
    ASSUME PairingInv, TypeOK', NEW c \in Client, NEW k \in Conn, NEW t,
           SetTask(c, k, t), phase[k] \notin Unasked,
           UNCHANGED <<phase, host, claims, acked, winner, sock>>,
           requests' \subseteq requests, <<c, k>> \notin requests',
           \A m \in claimMsgs' : m \in claimMsgs \/ m = <<c, k>>,
           <<c, k>> \in claimMsgs' =>
               phase[k] \in {"await", "collect"} /\ host[k] \in Serves[c],
           sock[c][k] # "none" => t \in {"bridge", "done"},
           acks' \subseteq acks, t \in {"dial", "bridge"} => winner[k] = c
    PROVE  PairingInv'
<1>1. TypeOK /\ MessagesInv /\ OnlyWinnerAccepted /\ PairedWithWinner
  BY DEF PairingInv
<1>2. TaskBecomes(c, k, t)
  BY <1>1, SetTaskValue
<1>3. MessagesInv'
  BY <1>1, <1>2, TaskMessages
<1>4. OnlyWinnerAccepted'
  BY <1>1, <1>2, TaskAccepted
<1>5. PairedWithWinner'
  BY <1>1 DEF PairedWithWinner
<1> QED
  BY <1>3, <1>4, <1>5, ConnsKept DEF PairingInv

\* A task that has started was asked, and is not asked again.
LEMMA TaskAsked ==
    ASSUME PairingInv, NEW c \in Client, NEW k \in Conn, task[c][k] # "none"
    PROVE  /\ phase[k] \notin Unasked
           /\ <<c, k>> \notin requests
           /\ <<c, k>> \in claimMsgs =>
                 phase[k] \in {"await", "collect"} /\ host[k] \in Serves[c]
           /\ task[c][k] \notin {"bridge", "done"} => sock[c][k] = "none"
BY DEF PairingInv, MessagesInv, Messages

\* A client that was asked has not started its task.
LEMMA RequestAsked ==
    ASSUME PairingInv, NEW c \in Client, NEW k \in Conn, <<c, k>> \in requests
    PROVE  /\ phase[k] \notin Unasked
           /\ sock[c][k] = "none"
           /\ <<c, k>> \in claimMsgs =>
                 phase[k] \in {"await", "collect"} /\ host[k] \in Serves[c]
BY DEF PairingInv, MessagesInv, Messages

\* Answering a request keeps the invariant: a client claims only hosts it has
\* a rule for (handle_request, submit_claim).
LEMMA AnswerPairing ==
    ASSUME PairingInv, TypeOK', NEW c \in Client, NEW k \in Conn,
           ClaimRequest(c, k) \/ DeclineRequest(c, k)
    PROVE  PairingInv'
<1>1. PICK t \in {"claimed", "done"} : SetTask(c, k, t)
  BY DEF ClaimRequest, DeclineRequest
<1>2. /\ <<c, k>> \in requests
      /\ requests' = requests \ {<<c, k>>}
      /\ UNCHANGED <<phase, host, claims, acked, winner, sock, acks>>
  BY DEF ClaimRequest, DeclineRequest, public, locals, choice, data
<1>3. /\ \A m \in claimMsgs' : m \in claimMsgs \/ m = <<c, k>>
      /\ claimMsgs' = claimMsgs \/ (phase[k] \in {"await", "collect"} /\ host[k] \in Serves[c])
  BY DEF ClaimRequest, DeclineRequest, locals
<1>4. /\ phase[k] \notin Unasked
      /\ sock[c][k] = "none"
      /\ <<c, k>> \in claimMsgs' =>
            phase[k] \in {"await", "collect"} /\ host[k] \in Serves[c]
  BY <1>2, <1>3, RequestAsked
<1>5. /\ requests' \subseteq requests /\ <<c, k>> \notin requests'
      /\ acks' \subseteq acks /\ t \notin {"dial", "bridge"}
  BY <1>1, <1>2
<1> QED
  BY <1>1, <1>2, <1>3, <1>4, <1>5, TaskStep

\* The decision reaching a client, and every way in which a task ends, keep
\* the invariant (handle_request, bridge_connection).
LEMMA SettlePairing ==
    ASSUME PairingInv, TypeOK', NEW c \in Client, NEW k \in Conn,
           \/ \E ack \in acks : ReceiveAck(c, k, ack)
           \/ AckTimeout(c, k)
           \/ DialFails(c, k)
           \/ BridgeEnds(c, k)
    PROVE  PairingInv'
<1>1. PICK t \in {"dial", "done"} :
          SetTask(c, k, t) /\ (t = "dial" => winner[k] = c /\ task[c][k] = "claimed")
  <2>1. ASSUME NEW ack \in acks, ReceiveAck(c, k, ack)
        PROVE  \/ SetTask(c, k, "dial") /\ winner[k] = c /\ task[c][k] = "claimed"
               \/ SetTask(c, k, "done")
    <3>1. /\ SetTask(c, k, IF ack.accepted THEN "dial" ELSE "done")
          /\ ack.to = c /\ ack.conn = k /\ task[c][k] = "claimed"
      BY <2>1 DEF ReceiveAck
    <3>2. ack.accepted => winner[k] = c
      BY <3>1 DEF PairingInv, OnlyWinnerAccepted
    <3> QED
      BY <3>1, <3>2
  <2>2. CASE AckTimeout(c, k) \/ DialFails(c, k) \/ BridgeEnds(c, k)
    BY <2>2 DEF AckTimeout, DialFails, BridgeEnds
  <2> QED
    BY <2>1, <2>2
<1>2. /\ task[c][k] # "none"
      /\ requests' = requests
      /\ acks' \subseteq acks
      /\ UNCHANGED <<phase, host, claims, acked, winner, claimMsgs, sock>>
  BY DEF ReceiveAck, AckTimeout, DialFails, BridgeEnds, public, locals, choice,
     network, data
<1>3. /\ phase[k] \notin Unasked
      /\ <<c, k>> \notin requests
      /\ <<c, k>> \in claimMsgs =>
            phase[k] \in {"await", "collect"} /\ host[k] \in Serves[c]
      /\ sock[c][k] # "none" => t \in {"bridge", "done"}
  BY <1>1, <1>2, TaskAsked
<1> QED
  BY <1>1, <1>2, <1>3, TaskStep
-----------------------------------------------------------------------------
(***************************************************************************)
(* Callbacks, outages, and the steps that Pairing sees.                    *)
(***************************************************************************)
\* Opening the callback socket keeps the invariant: it is the winner that
\* dials, and its connection is not relayed yet.
LEMMA DialPairing ==
    ASSUME PairingInv, TypeOK', NEW c \in Client, NEW k \in Conn, DialCallback(c, k)
    PROVE  PairingInv'
<1>0. TypeOK /\ MessagesInv /\ OnlyWinnerAccepted /\ PairedWithWinner
  BY DEF PairingInv
<1>1. /\ task[c][k] = "dial"
      /\ SetTask(c, k, "bridge")
      /\ SetSock(c, k, "open")
      /\ UNCHANGED <<phase, host, claims, acked, winner, claimMsgs, requests, acks>>
  BY DEF DialCallback, public, locals, choice, network
<1>2. TaskBecomes(c, k, "bridge") /\ SockBecomes(c, k, "open")
  BY <1>0, <1>1, SetTaskValue, SetSockValue
<1>3. winner[k] = c /\ phase[k] # "relay"
  <2>1. sock[c][k] = "none"
    BY <1>1, TaskAsked
  <2> QED
    BY <1>0, <1>1, <2>1 DEF OnlyWinnerAccepted, PairedWithWinner
<1>4. MessagesInv'
  <2> SUFFICES ASSUME NEW d \in Client, NEW j \in Conn PROVE Messages(d, j)'
    BY DEF MessagesInv
  <2>1. Messages(d, j)
    BY <1>0 DEF MessagesInv
  <2>2. /\ task'[d][j] = IF d = c /\ j = k THEN "bridge" ELSE task[d][j]
        /\ sock'[d][j] = IF d = c /\ j = k THEN "open" ELSE sock[d][j]
    BY <1>2 DEF TaskBecomes, SockBecomes
  <2>3. CASE d = c /\ j = k
    BY <1>1, <2>1, <2>2, <2>3 DEF Messages
  <2>4. CASE ~(d = c /\ j = k)
    BY <1>1, <2>1, <2>2, <2>4 DEF Messages
  <2> QED
    BY <2>3, <2>4
<1>5. OnlyWinnerAccepted'
  BY <1>0, <1>1, <1>2, <1>3, TaskAccepted
<1>6. PairedWithWinner'
  BY <1>0, <1>1, <1>2, <1>3, SockPaired
<1> QED
  BY <1>1, <1>4, <1>5, <1>6, ConnsKept DEF PairingInv

\* A step of a callback socket keeps the invariant if it keeps what the
\* invariant says of its connection, and leaves the socket relayed exactly if
\* it is the winner's and the connection is.
LEMMA SockStep ==
    ASSUME PairingInv, TypeOK', NEW c \in Client, NEW k \in Conn, NEW s,
           SetSock(c, k, s), task[c][k] \in {"bridge", "done"},
           Others(k), ConnInv(k)',
           UNCHANGED <<host, winner, requests, acks, task>>,
           phase'[k] = phase[k] \/ phase'[k] \in {"relay", "closed"},
           \A d \in Client, j \in Conn : <<d, j>> \in claimMsgs' =>
               <<d, j>> \in claimMsgs /\ (j = k => phase'[k] = phase[k]),
           s = "relay" <=> phase'[k] = "relay" /\ winner[k] = c,
           \A d \in Client \ {c} : winner[k] = d =>
               (phase'[k] = "relay" <=> phase[k] = "relay")
    PROVE  PairingInv'
<1>1. TypeOK /\ MessagesInv /\ OnlyWinnerAccepted /\ PairedWithWinner
  BY DEF PairingInv
<1>2. SockBecomes(c, k, s)
  BY <1>1, SetSockValue
<1>3. \A j \in Conn \ {k} : phase'[j] = phase[j]
  BY DEF Others
<1>4. MessagesInv'
  <2>1. \A j \in Conn : \/ phase'[j] = phase[j]
                        \/ phase'[j] \notin Unasked \cup {"await", "collect"}
    BY <1>3 DEF Unasked
  <2>2. \A d \in Client, j \in Conn : <<d, j>> \in claimMsgs' =>
            <<d, j>> \in claimMsgs /\ phase'[j] = phase[j]
    BY <1>3
  <2> QED
    BY <1>1, <1>2, <2>1, <2>2, SockMessages
<1>5. PairedWithWinner'
  BY <1>1, <1>2, <1>3, SockPaired
<1>6. OnlyWinnerAccepted'
  BY <1>1 DEF OnlyWinnerAccepted
<1> QED
  BY <1>4, <1>5, <1>6, OthersKept DEF PairingInv

\* A callback socket exists only after its request was dealt with.
LEMMA SockTask ==
    ASSUME PairingInv, NEW c \in Client, NEW k \in Conn, sock[c][k] # "none"
    PROVE  task[c][k] \in {"bridge", "done"}
BY DEF PairingInv, MessagesInv, Messages

\* A callback that is opened by a client without being accepted, accepted for
\* its handshake, refused or given up does not touch its connection.
LEMMA AlonePairing ==
    ASSUME PairingInv, TypeOK', NEW c \in Client, NEW k \in Conn,
           StrayCallback(c, k) \/ AcceptData(c, k) \/ BindUnknown(c, k) \/ PrefixFails(c, k)
    PROVE  PairingInv'
<1>1. PICK s \in Sock \ {"relay"} : SetSock(c, k, s)
  BY DEF StrayCallback, AcceptData, BindUnknown, PrefixFails, Sock
<1>2. /\ sock[c][k] # "relay"
      /\ sock[c][k] = "none" => task[c][k] = "done"
      /\ UNCHANGED <<phase, host, claims, acked, winner, claimMsgs, requests, acks, task>>
  BY DEF StrayCallback, AcceptData, BindUnknown, PrefixFails, public, locals, choice,
     network, clients
<1>3. task[c][k] \in {"bridge", "done"}
  BY <1>2, SockTask
<1>4. Others(k)
  BY <1>2 DEF Others
<1>5. ConnInv(k)'
  <2>1. ConnInv(k)
    BY ConnInvAt
  <2> QED
    BY <1>2, <2>1 DEF ConnInv
<1>6. ~(phase[k] = "relay" /\ winner[k] = c)
  BY <1>2 DEF PairingInv, PairedWithWinner
<1> QED
  BY <1>1, <1>2, <1>3, <1>4, <1>5, <1>6, SockStep

\* Binding a callback keeps the invariant: the prefix names the winner of the
\* pending connection, or the connection is dropped.  So does the end of a
\* relay (handle_client_data).
LEMMA BindPairing ==
    ASSUME PairingInv, TypeOK', NEW c \in Client, NEW k \in Conn,
           Bind(c, k) \/ BindMismatch(c, k) \/ RelayEnds(c, k)
    PROVE  PairingInv'
<1>0. TypeOK /\ ConnInv(k) /\ PairedWithWinner
  BY ConnInvAt DEF PairingInv
<1>1. CASE Bind(c, k)
  <2>1. /\ sock[c][k] = "handshake"
        /\ phase[k] = "pending"
        /\ winner[k] = c
        /\ \A j \in Conn : phase'[j] = IF j = k THEN "relay" ELSE phase[j]
        /\ SetSock(c, k, "relay")
        /\ UNCHANGED <<host, claims, acked, winner, claimMsgs, requests, acks, task>>
    BY <1>0, <1>1 DEF Bind, Goto, TypeOK, locals, choice, network, clients
  <2>2. task[c][k] \in {"bridge", "done"}
    BY <2>1, SockTask
  <2>3. Others(k)
    BY <2>1 DEF Others
  <2>4. ConnInv(k)'
    BY <1>0, <2>1 DEF ConnInv, Offered
  <2>5. \A d \in Client, j \in Conn : <<d, j>> \in claimMsgs' =>
            <<d, j>> \in claimMsgs /\ (j = k => phase'[k] = phase[k])
    BY <2>1, ClaimInFlight
  <2> QED
    BY <2>1, <2>2, <2>3, <2>4, <2>5, SockStep
<1>2. CASE BindMismatch(c, k) \/ RelayEnds(c, k)
  <2>1. PICK s \in {"refused", "closed"} : SetSock(c, k, s)
    BY <1>2 DEF BindMismatch, RelayEnds
  <2>2. /\ sock[c][k] # "none"
        /\ \/ phase[k] = "pending" /\ winner[k] # c
           \/ phase[k] = "relay" /\ sock[c][k] = "relay"
        /\ DropSocket(k)
        /\ UNCHANGED <<host, winner, requests, acks, task>>
    BY <1>2 DEF BindMismatch, RelayEnds, choice, network, clients
  <2>3. /\ \A j \in Conn : phase'[j] = IF j = k THEN "closed" ELSE phase[j]
        /\ \A j \in Conn : claims'[j] = IF j = k THEN {} ELSE claims[j]
        /\ \A j \in Conn : acked'[j] = IF j = k THEN {} ELSE acked[j]
    BY <1>0, <2>2 DEF TypeOK, DropSocket, Goto
  <2>4. \A d \in Client, j \in Conn :
            <<d, j>> \in claimMsgs' => <<d, j>> \in claimMsgs /\ j # k
    BY <2>2 DEF DropSocket
  <2>5. task[c][k] \in {"bridge", "done"}
    BY <2>2, SockTask
  <2>6. Others(k)
    BY <2>2, <2>3 DEF Others
  <2>7. ConnInv(k)'
    BY <1>0, <2>2, <2>3 DEF ConnInv, Offered
  <2>8. /\ s # "relay" /\ phase'[k] = "closed"
        /\ \A d \in Client \ {c} : winner[k] = d => phase[k] # "relay"
    BY <1>0, <2>1, <2>2, <2>3 DEF PairedWithWinner
  <2> QED
    BY <2>1, <2>2, <2>4, <2>5, <2>6, <2>7, <2>8, SockStep
<1> QED
  BY <1>1, <1>2

\* A lost session and its return keep the invariant (run_oauth).
LEMMA SubscriptionPairing ==
    ASSUME PairingInv, TypeOK', NEW c \in Client, SessionEnds(c) \/ SessionStarts(c)
    PROVE  PairingInv'
<1>0. TypeOK /\ MessagesInv /\ OnlyWinnerAccepted /\ PairedWithWinner
  BY DEF PairingInv
<1>1. /\ requests' \subseteq requests
      /\ UNCHANGED <<phase, host, claims, acked, winner, claimMsgs, acks, task, sock>>
  BY DEF SessionEnds, SessionStarts, public, locals, choice, network, data
<1>2. MessagesInv'
  BY <1>0, <1>1 DEF MessagesInv, Messages
<1>3. OnlyWinnerAccepted'
  BY <1>0, <1>1 DEF OnlyWinnerAccepted
<1>4. PairedWithWinner'
  BY <1>0, <1>1 DEF PairedWithWinner
<1> QED
  BY <1>1, <1>2, <1>3, <1>4, ConnsKept DEF PairingInv

\* So does the exit of a client process with its tasks (run_all).
LEMMA ExitPairing ==
    ASSUME PairingInv, TypeOK', NEW c \in Client, ClientExits(c)
    PROVE  PairingInv'
<1>0. TypeOK /\ MessagesInv /\ OnlyWinnerAccepted /\ PairedWithWinner
  BY DEF PairingInv
<1>1. /\ requests' \subseteq requests
      /\ acks' \subseteq acks
      /\ UNCHANGED <<phase, host, claims, acked, winner, claimMsgs, sock>>
  BY DEF ClientExits, public, locals, choice, data
<1>2. \A d \in Client, k \in Conn :
          \/ task'[d][k] = task[d][k]
          \/ task'[d][k] = "done" /\ task[d][k] # "none"
  BY <1>0 DEF ClientExits, TypeOK
<1>3. MessagesInv'
  <2> SUFFICES ASSUME NEW d \in Client, NEW j \in Conn PROVE Messages(d, j)'
    BY DEF MessagesInv
  <2>1. Messages(d, j)
    BY <1>0 DEF MessagesInv
  <2>2. task'[d][j] = task[d][j] \/ (task'[d][j] = "done" /\ task[d][j] # "none")
    BY <1>2
  <2> QED
    BY <1>1, <2>1, <2>2 DEF Messages
<1>4. OnlyWinnerAccepted'
  <2>1. ASSUME NEW d \in Client, NEW j \in Conn, task'[d][j] \in {"dial", "bridge"}
        PROVE  winner'[j] = d
    <3>1. task[d][j] \in {"dial", "bridge"}
      BY <1>2, <2>1
    <3> QED
      BY <1>0, <1>1, <3>1 DEF OnlyWinnerAccepted
  <2>2. \A a \in acks' : a.accepted => winner'[a.conn] = a.to
    BY <1>0, <1>1 DEF OnlyWinnerAccepted
  <2> QED
    BY <2>1, <2>2 DEF OnlyWinnerAccepted
<1>5. PairedWithWinner'
  BY <1>0, <1>1 DEF PairedWithWinner
<1> QED
  BY <1>1, <1>3, <1>4, <1>5, ConnsKept DEF PairingInv

\* So does a restart of the ingress, which drops every socket at once.
LEMMA RestartPairing ==
    ASSUME PairingInv, TypeOK', IngressRestarts
    PROVE  PairingInv'
<1>0. TypeOK /\ MessagesInv /\ OnlyWinnerAccepted
  BY DEF PairingInv
<1>1. /\ \A k \in Conn : phase'[k] = IF phase[k] = "new" THEN "new" ELSE "closed"
      /\ \A k \in Conn : claims'[k] = {} /\ acked'[k] = {}
      /\ claimMsgs' = {}
      /\ UNCHANGED <<host, winner, requests, acks, task>>
  BY DEF IngressRestarts, network, clients
<1>2. \A c \in Client, k \in Conn :
          sock'[c][k] # "relay" /\ (sock[c][k] = "none" => sock'[c][k] = "none")
  BY DEF IngressRestarts
<1>3. MessagesInv'
  <2> SUFFICES ASSUME NEW d \in Client, NEW j \in Conn PROVE Messages(d, j)'
    BY DEF MessagesInv
  <2>1. Messages(d, j)
    BY <1>0 DEF MessagesInv
  <2>2. /\ phase'[j] = IF phase[j] = "new" THEN "new" ELSE "closed"
        /\ sock[d][j] = "none" => sock'[d][j] = "none"
    BY <1>1, <1>2
  <2> QED
    BY <1>1, <2>1, <2>2 DEF Messages, Unasked
<1>4. ASSUME NEW k \in Conn PROVE ConnInv(k)'
  <2>1. ConnInv(k)
    BY ConnInvAt
  <2> QED
    BY <1>1, <2>1 DEF ConnInv, Offered
<1>5. ChoiceInv' /\ WinnerServesHost' /\ AnsweredBeforePending'
  BY <1>4 DEF ConnInv, ChoiceInv, WinnerServesHost, AnsweredBeforePending
<1>6. OnlyWinnerAccepted'
  BY <1>0, <1>1 DEF OnlyWinnerAccepted
<1>7. PairedWithWinner'
  BY <1>1, <1>2 DEF PairedWithWinner
<1> QED
  BY <1>3, <1>5, <1>6, <1>7 DEF PairingInv
-----------------------------------------------------------------------------
(***************************************************************************)
(* The protocol implements Pairing.  Under the invariant the peers of a    *)
(* connection are settled by its phase and its winner, so it suffices to   *)
(* follow these two.                                                       *)
(***************************************************************************)
\* A step of a handler that gives up on its connection.
GivesUp(k) ==
    /\ DropSocket(k)
    /\ UNCHANGED <<host, choice, network, clients, data, outages>>

\* Every failure and every end of a handler drops the public socket and
\* touches nothing else (handle_ingress, spawn_pending_cleanup).
LEMMA HandlerGivesUp ==
    ASSUME NEW k \in Conn,
           \/ DetectFails(k) \/ PassthroughEnds(k) \/ BroadcastFails(k)
           \/ ClaimTimeout(k) \/ DecideFails(k) \/ PublishAckFails(k)
           \/ ExpirePending(k)
    PROVE  GivesUp(k)
BY DEF GivesUp, DetectFails, PassthroughEnds, BroadcastFails, ClaimTimeout,
   DecideFails, PublishAckFails, ExpirePending

\* The client's own steps touch neither the public sockets, nor the
\* permits, nor the choice of the ingress.
LEMMA RequestPublic ==
    ASSUME NEW c \in Client, NEW k \in Conn, Request(c, k)
    PROVE  UNCHANGED <<phase, winner, permit, handshakes>>
<1>1. ASSUME NEW ack \in acks, ReceiveAck(c, k, ack)
      PROVE  UNCHANGED <<phase, winner, permit, handshakes>>
  BY <1>1 DEF ReceiveAck, public, choice, data
<1>2. CASE ClaimRequest(c, k) \/ DeclineRequest(c, k) \/ AckTimeout(c, k)
  BY <1>2 DEF ClaimRequest, DeclineRequest, AckTimeout, public, choice, data
<1>3. CASE DialFails(c, k) \/ BridgeEnds(c, k) \/ DialCallback(c, k) \/ StrayCallback(c, k)
  BY <1>3 DEF DialFails, BridgeEnds, DialCallback, StrayCallback, public, choice, data
<1> QED
  BY <1>1, <1>2, <1>3 DEF Request

Peers == [k \in Conn |-> {c \in Client : sock[c][k] = "relay"}]

StatusOf == [k \in Conn |-> PairingStatus(phase[k])]

PeersSettled ==
    \A k \in Conn : Peers[k] = IF phase[k] = "relay" THEN {winner[k]} ELSE {}

\* A relayed connection has its winner for its only peer, and any other
\* connection has none.
LEMMA PeersValue == PairingInv => PeersSettled
<1> SUFFICES ASSUME PairingInv, NEW k \in Conn
             PROVE  Peers[k] = IF phase[k] = "relay" THEN {winner[k]} ELSE {}
  BY DEF PeersSettled
<1>1. \A c \in Client : sock[c][k] = "relay" <=> phase[k] = "relay" /\ winner[k] = c
  BY DEF PairingInv, PairedWithWinner
<1>2. phase[k] = "relay" => winner[k] \in Client
  BY DEF PairingInv, TypeOK, ChoiceInv, Offered
<1>3. Peers[k] = {c \in Client : sock[c][k] = "relay"}
  BY DEF Peers
<1> QED
  BY <1>1, <1>2, <1>3

\* The status that stands for each phase; exactly the relayed connections are
\* joined.
LEMMA StatusValue ==
    /\ PairingStatus("new") = "idle"
    /\ \A p \in {"detect", "prepare", "await", "collect"} : PairingStatus(p) = "waiting"
    /\ PairingStatus("passthrough") = "direct"
    /\ \A p \in {"ack", "granted", "pending"} : PairingStatus(p) = "offered"
    /\ PairingStatus("relay") = "joined"
    /\ PairingStatus("closed") = "dropped"
    /\ \A p \in Phase : PairingStatus(p) = "joined" <=> p = "relay"
BY DEF PairingStatus, Phase

\* A step that keeps every status and every winner leaves the promise alone.
LEMMA StatusKept ==
    ASSUME PairingInv, PairingInv', UNCHANGED winner,
           \A j \in Conn : PairingStatus(phase'[j]) = PairingStatus(phase[j])
    PROVE  UNCHANGED Abstract!pairingVars
<1>1. \A j \in Conn : phase[j] \in Phase /\ phase'[j] \in Phase
  BY DEF PairingInv, TypeOK
<1>2. \A j \in Conn : phase'[j] = "relay" <=> phase[j] = "relay"
  BY <1>1, StatusValue
<1>3. PeersSettled
  BY PeersValue
<1>4. PeersSettled'
  BY PeersValue, PTL
<1>5. Peers' = Peers
  BY <1>2, <1>3, <1>4 DEF PeersSettled, Peers
<1>6. StatusOf' = StatusOf
  BY DEF StatusOf
<1> QED
  BY <1>5, <1>6 DEF Abstract!pairingVars, Peers, StatusOf

\* What a step that settles one connection does to the promise.
LEMMA StatusMoved ==
    ASSUME PairingInv, PairingInv', NEW k \in Conn, NEW p \in Phase, Goto(k, p),
           UNCHANGED winner,
           LET s == PairingStatus(phase[k])
               t == PairingStatus(p)
           IN  \/ s = t
               \/ s = "idle" /\ t = "waiting"
               \/ s = "waiting" /\ t = "direct"
               \/ s = "offered" /\ t = "joined"
               \/ t = "dropped"
    PROVE  [Abstract!PairingNext]_(Abstract!pairingVars)
<1>1. \A j \in Conn : phase'[j] = IF j = k THEN p ELSE phase[j]
  BY DEF PairingInv, TypeOK, Goto
<1>2. \A j \in Conn : phase[j] \in Phase
  BY DEF PairingInv, TypeOK
<1>3. PeersSettled
  BY PeersValue
<1>4. PeersSettled'
  BY PeersValue, PTL
<1>5. CASE PairingStatus(phase[k]) = PairingStatus(p)
  <2>1. \A j \in Conn : PairingStatus(phase'[j]) = PairingStatus(phase[j])
    BY <1>1, <1>5
  <2> QED
    BY <2>1, StatusKept
<1>6. StatusOf' = [StatusOf EXCEPT ![k] = PairingStatus(p)]
  BY <1>1 DEF StatusOf
<1>7. ASSUME p # "relay", phase[k] # "relay" PROVE Peers' = Peers
  <2>1. \A j \in Conn : Peers'[j] = Peers[j]
    BY <1>1, <1>3, <1>4, <1>7 DEF PeersSettled
  <2> QED
    BY <2>1 DEF Peers
<1>8. CASE PairingStatus(phase[k]) = "idle" /\ PairingStatus(p) = "waiting"
  <2>1. Peers' = Peers /\ StatusOf[k] = "idle" /\ StatusOf' = [StatusOf EXCEPT ![k] = "waiting"]
    BY <1>2, <1>6, <1>7, <1>8, StatusValue DEF StatusOf
  <2>2. Abstract!Take(k)
    BY <2>1 DEF Abstract!Take, StatusOf, Peers
  <2> QED
    BY <2>2 DEF Abstract!PairingNext
<1>9. CASE PairingStatus(phase[k]) = "waiting" /\ PairingStatus(p) = "direct"
  <2>1. Peers' = Peers /\ StatusOf[k] = "waiting" /\ StatusOf' = [StatusOf EXCEPT ![k] = "direct"]
    BY <1>2, <1>6, <1>7, <1>9, StatusValue DEF StatusOf
  <2>2. Abstract!ServeDirectly(k)
    BY <2>1 DEF Abstract!ServeDirectly, StatusOf, Peers
  <2> QED
    BY <2>2 DEF Abstract!PairingNext
<1>10. CASE PairingStatus(phase[k]) = "offered" /\ PairingStatus(p) = "joined"
  <2>1. StatusOf[k] = "offered" /\ StatusOf' = [StatusOf EXCEPT ![k] = "joined"]
    BY <1>6, <1>10 DEF StatusOf
  <2>2. Peers' = [Peers EXCEPT ![k] = {winner[k]}]
    <3>1. p = "relay" /\ phase[k] # "relay"
      BY <1>2, <1>10, StatusValue
    <3>2. \A j \in Conn : Peers'[j] = IF j = k THEN {winner[k]} ELSE Peers[j]
      BY <1>1, <1>3, <1>4, <3>1 DEF PeersSettled
    <3> QED
      BY <3>2 DEF Peers
  <2>3. Abstract!Join(k)
    BY <2>1, <2>2 DEF Abstract!Join, StatusOf, Peers
  <2> QED
    BY <2>3 DEF Abstract!PairingNext
<1>11. CASE PairingStatus(p) = "dropped"
  <2>1. StatusOf' = [j \in Conn |-> IF j \in {k} THEN "dropped" ELSE StatusOf[j]]
    BY <1>6, <1>11 DEF StatusOf
  <2>2. Peers' = [j \in Conn |-> IF j \in {k} THEN {} ELSE Peers[j]]
    <3>1. p # "relay"
      BY <1>11, StatusValue
    <3>2. \A j \in Conn : Peers'[j] = IF j = k THEN {} ELSE Peers[j]
      BY <1>1, <1>3, <1>4, <3>1 DEF PeersSettled
    <3> QED
      BY <3>2 DEF Peers
  <2>3. Abstract!Drop({k})
    BY <2>1, <2>2 DEF Abstract!Drop, StatusOf, Peers
  <2> QED
    BY <2>3 DEF Abstract!PairingNext
<1> QED
  BY <1>5, <1>8, <1>9, <1>10, <1>11

\* Every step of a handler is a step of the promise for its connection, or
\* leaves the promise alone: the decision offers the connection to the winner.
LEMMA HandlerImplements ==
    ASSUME PairingInv, PairingInv', NEW k \in Conn, Handler(k)
    PROVE  [Abstract!PairingNext]_(Abstract!pairingVars)
<1>1. CASE AcceptPublic(k)
  <2>1. /\ Goto(k, "detect") \/ Goto(k, "closed")
        /\ phase[k] = "new" /\ UNCHANGED winner
    BY <1>1 DEF AcceptPublic, choice
  <2> QED
    BY <2>1, StatusMoved, StatusValue DEF Phase
<1>2. CASE GivesUp(k)
  <2>1. Goto(k, "closed") /\ UNCHANGED winner
    BY <1>2 DEF GivesUp, DropSocket, choice
  <2> QED
    BY <2>1, StatusMoved, StatusValue DEF Phase
<1>3. ASSUME NEW h \in Route, DetectHostname(k, h)
      PROVE  [Abstract!PairingNext]_(Abstract!pairingVars)
  <2>1. /\ Goto(k, "passthrough") \/ Goto(k, "prepare")
        /\ phase[k] = "detect" /\ UNCHANGED winner
    BY <1>3 DEF DetectHostname, choice
  <2> QED
    BY <2>1, StatusMoved, StatusValue DEF Phase
<1>4. CASE Broadcast(k)
  <2>1. Goto(k, "await") /\ phase[k] = "prepare" /\ UNCHANGED winner
    BY <1>4 DEF Broadcast, choice
  <2> QED
    BY <2>1, StatusMoved, StatusValue DEF Phase
<1>5. ASSUME NEW c \in Client, CollectClaim(k, c) \/ CollectInvalid(k, c)
      PROVE  [Abstract!PairingNext]_(Abstract!pairingVars)
  <2>1. Goto(k, "collect") /\ phase[k] \in {"await", "collect"} /\ UNCHANGED winner
    BY <1>5 DEF CollectClaim, CollectInvalid, choice
  <2> QED
    BY <2>1, StatusMoved, StatusValue DEF Phase
<1>6. ASSUME NEW c \in Client, PublishAck(k, c)
      PROVE  [Abstract!PairingNext]_(Abstract!pairingVars)
  <2>1. /\ Goto(k, "ack") \/ Goto(k, "granted")
        /\ phase[k] = "ack" /\ UNCHANGED winner
    BY <1>6 DEF PublishAck, choice
  <2> QED
    BY <2>1, StatusMoved, StatusValue DEF Phase
<1>7. CASE InsertPending(k)
  <2>1. Goto(k, "pending") /\ phase[k] = "granted" /\ UNCHANGED winner
    BY <1>7 DEF InsertPending, choice
  <2> QED
    BY <2>1, StatusMoved, StatusValue DEF Phase
<1>8. CASE Decide(k)
  <2>1. PICK c \in Client : winner' = [winner EXCEPT ![k] = c]
    BY <1>8 DEF Decide
  <2>2. phase[k] = "collect" /\ (\A j \in Conn : phase'[j] = IF j = k THEN "ack" ELSE phase[j])
    BY <1>8 DEF Decide, Goto, PairingInv, TypeOK
  <2>3. StatusOf[k] = "waiting" /\ StatusOf' = [StatusOf EXCEPT ![k] = "offered"]
    <3>1. \A j \in Conn : StatusOf'[j] = IF j = k THEN "offered" ELSE StatusOf[j]
      BY <2>2, StatusValue DEF StatusOf
    <3> QED
      BY <2>2, <3>1, StatusValue DEF StatusOf
  <2>4. \A j \in Conn \ {k} : winner'[j] = winner[j]
    BY <2>1 DEF PairingInv, TypeOK
  <2>5. PeersSettled /\ PeersSettled'
    BY PeersValue, PTL
  <2>6. Peers' = Peers
    BY <2>2, <2>4, <2>5 DEF PeersSettled, Peers
  <2>7. Abstract!Offer(k, c)
    BY <2>1, <2>3, <2>6 DEF Abstract!Offer, StatusOf, Peers
  <2> QED
    BY <2>7 DEF Abstract!PairingNext
<1> QED
  BY <1>1, <1>2, <1>3, <1>4, <1>5, <1>6, <1>7, <1>8, HandlerGivesUp DEF Handler

\* So is every step of a callback's handler: binding joins the connection to
\* its owner.
LEMMA CallbackImplements ==
    ASSUME PairingInv, PairingInv', NEW c \in Client, NEW k \in Conn, Callback(c, k)
    PROVE  [Abstract!PairingNext]_(Abstract!pairingVars)
<1>1. CASE AcceptData(c, k) \/ BindUnknown(c, k) \/ PrefixFails(c, k)
  <2>1. UNCHANGED <<phase, winner>>
    BY <1>1 DEF AcceptData, BindUnknown, PrefixFails, public, choice
  <2> QED
    BY <2>1, StatusKept
<1>2. CASE Bind(c, k)
  <2>1. Goto(k, "relay") /\ phase[k] = "pending" /\ UNCHANGED winner
    BY <1>2 DEF Bind, choice
  <2> QED
    BY <2>1, StatusMoved, StatusValue DEF Phase
<1>3. CASE BindMismatch(c, k) \/ RelayEnds(c, k)
  <2>1. Goto(k, "closed") /\ UNCHANGED winner
    BY <1>3 DEF BindMismatch, RelayEnds, DropSocket, choice
  <2> QED
    BY <2>1, StatusMoved, StatusValue DEF Phase
<1> QED
  BY <1>1, <1>2, <1>3 DEF Callback

\* A restart of the ingress drops every connection it had accepted.
LEMMA RestartImplements ==
    ASSUME PairingInv, PairingInv', IngressRestarts
    PROVE  [Abstract!PairingNext]_(Abstract!pairingVars)
<1>0. PICK S \in SUBSET Conn : S = {k \in Conn : phase[k] # "new"}
  OBVIOUS
<1>1. /\ \A k \in Conn : phase'[k] = IF k \in S THEN "closed" ELSE phase[k]
      /\ UNCHANGED winner
  BY <1>0 DEF IngressRestarts
<1>2. PeersSettled /\ PeersSettled'
  BY PeersValue, PTL
<1>3. StatusOf' = [k \in Conn |-> IF k \in S THEN "dropped" ELSE StatusOf[k]]
  BY <1>1, StatusValue DEF StatusOf
<1>4. Peers' = [k \in Conn |-> IF k \in S THEN {} ELSE Peers[k]]
  BY <1>1, <1>2 DEF PeersSettled, Peers
<1>5. Abstract!Drop(S)
  BY <1>1, <1>3, <1>4 DEF Abstract!Drop, StatusOf, Peers
<1> QED
  BY <1>5 DEF Abstract!PairingNext
=============================================================================
