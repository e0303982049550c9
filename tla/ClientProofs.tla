---------------------------- MODULE ClientProofs ----------------------------
(***************************************************************************)
(* Proofs about the client: module Session, for any set of routes, any     *)
(* number of connections and any life times, and module Desktop, for any   *)
(* contents, launches and bounds.                                          *)
(***************************************************************************)
EXTENDS Session, Desktop, TLAPS

\* A leaf is proved by Zenon, or by SMT where it says so: where it rests on
\* arithmetic or on what an update of a function leaves behind.
USE ZenonT(60), SMTT(30)
-----------------------------------------------------------------------------
(***************************************************************************)
(* Session: a ticket outlives its session when the set-up is quick enough, *)
(* and a certificate runtime lives exactly as long as somebody holds its   *)
(* session.                                                                *)
(***************************************************************************)
Pc == {"ticket", "connect", "setup", "listen", "sleep", "ended"}

\* The seconds between renewal and expiry exceed those of a set-up.
PromptSetup == \A l \in Lifetimes : l - RenewAfter(l) > MaxSetup

\* What the counters say about a ticket: until the route listens, what has
\* been spent still fits between renewal and expiry; from then on the timer
\* runs out first.
Timing ==
    /\ pc \in [Route -> Pc]
    /\ left \in [Route -> Nat] /\ after \in [Route -> Nat]
    /\ spent \in [Route -> Nat] /\ timer \in [Route -> Nat]
    /\ \A r \in OAuth :
          /\ up /\ pc[r] \in {"connect", "setup"} =>
                spent[r] <= MaxSetup /\ left[r] + spent[r] > after[r] + MaxSetup
          /\ up /\ pc[r] = "listen" => left[r] > timer[r]

\* renew_after lies strictly within a ticket's life time of two seconds or
\* more, whatever that is compared with renew_before_seconds (run_oauth).
LEMMA RenewWithinLifetime ==
    ASSUME NEW l \in Nat, l >= 2, RenewBefore >= 1
    PROVE  RenewAfter(l) \in 1 .. l - 1
BY SessionAssumption, SMTT(30) DEF RenewAfter

\* Life times and renewal times are natural numbers (run_oauth).
LEMMA RenewAfterNat ==
    ASSUME NEW l \in Lifetimes
    PROVE  l \in Nat /\ RenewAfter(l) \in Nat
BY SessionAssumption, SMTT(30) DEF RenewAfter

\* No route holds a ticket initially.
LEMMA TimingInit == SessionInit => Timing
BY SessionAssumption, SMTT(30) DEF SessionInit, Timing, Begin, Pc

\* Every step keeps the ticket ahead of the set-up and of the timer.
LEMMA TimingNext ==
    ASSUME PromptSetup, Timing, [SessionNext]_sessionVars
    PROVE  Timing'
<1> USE SessionAssumption DEF Timing, Pc
<1>1. ASSUME NEW r \in Route, Ticket(r) PROVE Timing'
  <2>1. PICK l \in Lifetimes : /\ left' = [left EXCEPT ![r] = l]
                               /\ after' = [after EXCEPT ![r] = RenewAfter(l)]
    BY <1>1 DEF Ticket
  <2>2. l \in Nat /\ RenewAfter(l) \in Nat
    BY RenewAfterNat
  <2>3. l - RenewAfter(l) > MaxSetup
    BY DEF PromptSetup
  <2>4. /\ pc' = [pc EXCEPT ![r] = "connect"]
        /\ spent' = [spent EXCEPT ![r] = 0]
        /\ UNCHANGED <<up, timer>>
    BY <1>1 DEF Ticket, Goto
  <2> QED BY <2>1, <2>2, <2>3, <2>4, SMTT(30)
<1>2. ASSUME NEW r \in Route, Connect(r) PROVE Timing'
  BY <1>2 DEF Connect, Goto
<1>3. ASSUME NEW r \in Route, Listen(r) PROVE Timing'
  <2>1. /\ pc' = [pc EXCEPT ![r] = "listen"]
        /\ timer' = [timer EXCEPT ![r] = after[r]]
        /\ after' = [after EXCEPT ![r] = 0]
        /\ spent' = [spent EXCEPT ![r] = 0]
        /\ pc[r] = "setup"
        /\ UNCHANGED <<up, left>>
    BY <1>3 DEF Listen, Goto
  <2> QED BY <2>1, SMTT(30)
<1>4. ASSUME NEW r \in Route, Renew(r) \/ Wake(r) \/ Fails(r) PROVE Timing'
  <2>1. /\ \E w \in {"ticket", "sleep", "ended"} : pc' = [pc EXCEPT ![r] = w]
        /\ DropTicket(r) \/ UNCHANGED <<left, after, spent, timer>>
        /\ up' = up
    BY <1>4 DEF Renew, Wake, Fails, TicketFails, TicketRefused, StartFails, SubscriptionEnds, Goto
  <2> QED BY <2>1, SMTT(30) DEF DropTicket
<1>5. CASE JoinNext
  <2>1. /\ pc' = pc /\ up' = FALSE
        /\ left' = [r \in Route |-> 0] /\ after' = [r \in Route |-> 0]
        /\ spent' = [r \in Route |-> 0] /\ timer' = [r \in Route |-> 0]
    BY <1>5 DEF JoinNext, LeaveAll
  <2> QED BY <2>1
<1>6. CASE Restart
  <2>1. pc' = [r \in Route |-> Begin(r)] /\ UNCHANGED <<left, after, spent, timer>>
    BY <1>6 DEF Restart
  <2>2. \A r \in OAuth : pc'[r] = "ticket"
    BY <2>1 DEF Begin
  <2>3. pc' \in [Route -> Pc]
    BY <2>1 DEF Begin
  <2>4. \A r \in OAuth : pc'[r] \notin {"connect", "setup", "listen"}
    BY <2>2
  <2> QED BY <2>1, <2>3, <2>4
<1>7. CASE Tick
  <2>1. /\ pc' = pc /\ after' = after /\ up' = up /\ up
        /\ left' = [r \in Route |-> IF left[r] > 0 THEN left[r] - 1 ELSE 0]
        /\ timer' = [r \in Route |-> IF r \in OAuth /\ pc[r] = "listen" THEN timer[r] - 1 ELSE timer[r]]
        /\ spent' = [r \in Route |-> IF r \in OAuth /\ pc[r] \in {"connect", "setup"}
                                     THEN spent[r] + 1 ELSE spent[r]]
    BY <1>7 DEF Tick
  <2>2. \A r \in OAuth : /\ pc[r] = "listen" => timer[r] > 0
                         /\ pc[r] \in {"connect", "setup"} => spent[r] < MaxSetup
    BY <1>7 DEF Tick
  <2>3. left' \in [Route -> Nat] /\ timer' \in [Route -> Nat] /\ spent' \in [Route -> Nat]
    BY <2>1, <2>2, SMTT(30)
  <2>4. ASSUME NEW r \in OAuth, pc[r] \in {"connect", "setup"}
        PROVE  spent'[r] <= MaxSetup /\ left'[r] + spent'[r] > after'[r] + MaxSetup
    BY <2>1, <2>2, <2>4, SMTT(30)
  <2>5. ASSUME NEW r \in OAuth, pc[r] = "listen"
        PROVE  left'[r] > timer'[r]
    BY <2>1, <2>2, <2>5, SMTT(30)
  <2> QED BY <2>1, <2>3, <2>4, <2>5
<1>8. ASSUME NEW c \in Conn, Serves(c) \/ EndpointEnds(c) \/ Forget(c) \/ \E r \in Route : Arrive(c, r)
      PROVE Timing'
  BY <1>8, SMTT(30) DEF Serves, HandsOver, EndpointEnds, Forget, Arrive, Inspect, Send, Take, Accept, loops
<1>9. CASE UNCHANGED sessionVars
  BY <1>9 DEF sessionVars, loops
<1> QED BY <1>1, <1>2, <1>3, <1>4, <1>5, <1>6, <1>7, <1>8, <1>9 DEF SessionNext, Works

\* As long as a set-up takes less than the time between renewal and expiry,
\* no route ever listens with an expired ticket (run_oauth).
THEOREM TicketOutlivesSession ==
    ASSUME PromptSetup
    PROVE  SessionSpec => []ListensWithTicket
<1>1. Timing /\ [SessionNext]_sessionVars => Timing'
  BY TimingNext
<1>2. Timing => ListensWithTicket
  BY SessionAssumption, SMTT(30) DEF Timing, ListensWithTicket
<1> QED BY TimingInit, <1>1, <1>2, PTL DEF SessionSpec
-----------------------------------------------------------------------------
(***************************************************************************)
(* Who holds a session.                                                    *)
(***************************************************************************)
\* A route has a session exactly while it listens, every connection knows
\* the session it came through, and only a route with certificates hands
\* connections over.
Ownership ==
    /\ pc \in [Route -> Pc] /\ up \in BOOLEAN
    /\ session \in [Route -> Number \cup {0}]
    /\ running \subseteq Sid
    /\ conn \in [Conn -> [at : Where, sid : Sid \cup {<<>>}]]
    /\ \A r \in Route : session[r] # 0 <=> (up /\ pc[r] = "listen")
    /\ \A c \in Conn : conn[c].at \in Holding => conn[c].sid \in Sid
    /\ \A c \in Conn : conn[c].at = "sending" => conn[c].sid[1] \in Acme

HandoverInv == Ownership /\ RuntimeHeld /\ NeverRefused

\* Dropping a session aborts exactly the runtimes nobody holds any more.
LEMMA BecomeHeld ==
    ASSUME Ownership, RuntimeHeld,
           NEW sessions \in [Route -> Number \cup {0}],
           NEW conns \in [Conn -> [at : Where, sid : Sid \cup {<<>>}]],
           Become(sessions, conns),
           \A s \in Sid : Held(s, sessions, conns) => Held(s, session, conn)
    PROVE  /\ RuntimeHeld'
           /\ running' \subseteq Sid
           /\ session' = sessions
           /\ conn' \in [Conn -> [at : Where, sid : Sid \cup {<<>>}]]
           /\ \A c \in Conn : /\ conn'[c].sid = conns[c].sid
                              /\ conn'[c].at # conns[c].at => conn'[c].at = "cut"
<1> DEFINE dead == {s \in running : ~Held(s, sessions, conns)}
<1>1. /\ session' = sessions
      /\ running' = running \ dead
      /\ conn' = [c \in Conn |->
            IF conns[c].sid \in dead /\ conns[c].at \in {"queued", "handshake"}
            THEN [conns[c] EXCEPT !.at = "cut"] ELSE conns[c]]
  BY DEF Become
<1>2. ASSUME NEW c \in Conn
      PROVE  /\ conn'[c] \in [at : Where, sid : Sid \cup {<<>>}]
             /\ conn'[c].sid = conns[c].sid
             /\ conn'[c].at # conns[c].at => conn'[c].at = "cut"
             /\ conn'[c].at \in Holding <=> conns[c].at \in Holding
  <2>1. CASE conns[c].sid \in dead /\ conns[c].at \in {"queued", "handshake"}
    <3>1. conn'[c] = [conns[c] EXCEPT !.at = "cut"]
      BY <1>1, <2>1
    <3>2. conns[c] \in [at : Where, sid : Sid \cup {<<>>}]
      OBVIOUS
    <3> QED BY <2>1, <3>1, <3>2 DEF Where, Holding
  <2>2. CASE ~(conns[c].sid \in dead /\ conns[c].at \in {"queued", "handshake"})
    <3>1. conn'[c] = conns[c]
      BY <1>1, <2>2
    <3> QED BY <3>1
  <2> QED BY <2>1, <2>2
<1>3. conn' \in [Conn -> [at : Where, sid : Sid \cup {<<>>}]]
  <2>1. DOMAIN conn' = Conn /\ conn' = [c \in Conn |-> conn'[c]]
    BY <1>1
  <2> QED BY <1>2, <2>1
<1>4. \A s \in Sid : Held(s, session', conn') <=> Held(s, sessions, conns)
  BY <1>1, <1>2 DEF Held
<1>5. RuntimeHeld'
  <2> SUFFICES ASSUME NEW s \in Sid
               PROVE  s \in running' <=> s[1] \in Acme /\ Held(s, session', conn')
    BY DEF RuntimeHeld
  <2>1. s \in running <=> s[1] \in Acme /\ Held(s, session, conn)
    BY DEF RuntimeHeld
  <2> QED BY <1>1, <1>4, <2>1
<1> QED BY <1>1, <1>2, <1>3, <1>5 DEF Ownership

\* Initially no session, no runtime and no connection exists.
LEMMA HandoverInit == SessionInit => HandoverInv
<1> SUFFICES ASSUME SessionInit PROVE HandoverInv
  OBVIOUS
<1>1. \A c \in Conn : conn[c] = NoConn
  BY DEF SessionInit
<1>2. Ownership
  BY <1>1 DEF SessionInit, Ownership, NoConn, Where, Holding, Begin, Pc
<1>3. \A s \in Sid : s[1] \in Route /\ s[2] # 0
  BY SMTT(30) DEF Sid, Number
<1>4. \A s \in Sid : ~Held(s, session, conn)
  BY <1>1, <1>3 DEF Held, SessionInit, NoConn, Holding
<1> QED BY <1>1, <1>2, <1>4 DEF HandoverInv, RuntimeHeld, NeverRefused, SessionInit, NoConn

\* Every step of a session, a request task or a runtime keeps the invariant.
LEMMA HandoverNext ==
    ASSUME HandoverInv, [SessionNext]_sessionVars
    PROVE  HandoverInv'
<1> USE DEF HandoverInv
<1>s. \A s \in Sid : s \in Route \X Number /\ s[1] \in Route /\ s[2] \in Number /\ s[2] # 0 /\ s # <<>>
  BY SMTT(30) DEF Sid, Number
\* Steps that touch neither sessions nor connections.
<1>1. ASSUME UNCHANGED <<session, running, conn>>, pc' \in [Route -> Pc], up' \in BOOLEAN,
             \A r \in Route : (up' /\ pc'[r] = "listen") <=> (up /\ pc[r] = "listen")
      PROVE  HandoverInv'
  BY <1>1 DEF Ownership, RuntimeHeld, NeverRefused, Held
<1>2. ASSUME NEW r \in Route,
             Ticket(r) \/ Connect(r) \/ Wake(r) \/ TicketFails(r) \/ TicketRefused(r) \/ StartFails(r)
      PROVE  HandoverInv'
  <2>1. /\ UNCHANGED <<session, running, conn, up>>
        /\ pc[r] # "listen"
        /\ \E w \in Pc \ {"listen"} : pc' = [pc EXCEPT ![r] = w]
    BY <1>2 DEF Ticket, Connect, Wake, TicketFails, TicketRefused, StartFails, Goto, Pc
  <2>2. pc \in [Route -> Pc] /\ up \in BOOLEAN
    BY DEF Ownership
  <2> QED BY <1>1, <2>1, <2>2
<1>3. CASE Tick
  BY <1>1, <1>3 DEF Tick, Ownership
<1>4. CASE Restart
  <2>1. /\ UNCHANGED <<session, running, conn>> /\ ~up /\ up'
        /\ pc' = [r \in Route |-> Begin(r)]
    BY <1>4 DEF Restart
  <2>2. pc' \in [Route -> Pc] /\ \A r \in Route : pc'[r] # "listen"
    BY <2>1 DEF Begin, Pc
  <2> QED BY <1>1, <1>4, <2>1, <2>2 DEF Restart
<1>5. ASSUME NEW r \in Route, Listen(r) PROVE HandoverInv'
  <2>1. PICK n \in Free(r) :
              /\ session' = [session EXCEPT ![r] = n]
              /\ running' = IF r \in Acme THEN running \cup {<<r, n>>} ELSE running
    BY <1>5 DEF Listen
  <2>2. /\ conn' = conn /\ up' = up /\ up /\ pc[r] = "setup"
        /\ pc' = [pc EXCEPT ![r] = "listen"]
    BY <1>5 DEF Listen, Goto
  <2>3. n \in Number /\ n # 0 /\ <<r, n>> \in Sid /\ \A c \in Conn : conn[c].sid # <<r, n>>
    BY <2>1, SMTT(30) DEF Free, Number, Sid
  <2>4. session[r] = 0
    BY <2>2 DEF Ownership
  <2>5. Ownership'
    BY <2>1, <2>2, <2>3 DEF Ownership, Pc
  <2>6. ASSUME NEW s \in Sid
        PROVE  Held(s, session', conn') <=> Held(s, session, conn) \/ s = <<r, n>>
    <3>1. session \in [Route -> Number \cup {0}]
      BY DEF Ownership
    <3>2. s = <<s[1], s[2]>>
      BY SMTT(30) DEF Sid
    <3>3. CASE s[1] = r
      BY <1>s, <2>1, <2>2, <2>4, <3>1, <3>2, <3>3, SMTT(30) DEF Held
    <3>4. CASE s[1] # r
      BY <1>s, <2>1, <2>2, <3>1, <3>2, <3>4, SMTT(30) DEF Held
    <3> QED BY <3>3, <3>4
  <2>7. RuntimeHeld'
    <3> SUFFICES ASSUME NEW s \in Sid
                 PROVE  s \in running' <=> s[1] \in Acme /\ Held(s, session', conn')
      BY DEF RuntimeHeld
    <3>1. s \in running <=> s[1] \in Acme /\ Held(s, session, conn)
      BY DEF RuntimeHeld
    <3>2. <<r, n>>[1] = r
      OBVIOUS
    <3> QED BY <2>1, <2>6, <3>1, <3>2
  <2> QED BY <2>2, <2>5, <2>7 DEF NeverRefused
<1>6. ASSUME NEW r \in Route, Renew(r) \/ SubscriptionEnds(r) PROVE HandoverInv'
  <2> DEFINE sessions == [session EXCEPT ![r] = 0]
  <2>1. /\ Become(sessions, conn) /\ up' = up /\ up /\ pc[r] = "listen"
        /\ \E w \in Pc \ {"listen"} : pc' = [pc EXCEPT ![r] = w]
    BY <1>6 DEF Renew, SubscriptionEnds, Goto, Pc
  <2>2. /\ sessions \in [Route -> Number \cup {0}]
        /\ conn \in [Conn -> [at : Where, sid : Sid \cup {<<>>}]]
    BY DEF Ownership
  <2>3. \A s \in Sid : Held(s, sessions, conn) => Held(s, session, conn)
    BY <1>s DEF Held, Ownership
  <2> HIDE DEF sessions
  <2>4. /\ RuntimeHeld' /\ running' \subseteq Sid /\ session' = sessions
        /\ conn' \in [Conn -> [at : Where, sid : Sid \cup {<<>>}]]
        /\ \A c \in Conn : /\ conn'[c].sid = conn[c].sid
                           /\ conn'[c].at # conn[c].at => conn'[c].at = "cut"
    BY <2>1, <2>2, <2>3, BecomeHeld
  <2>5. NeverRefused'
    <3> SUFFICES ASSUME NEW c \in Conn PROVE conn'[c].at # "refused"
      BY DEF NeverRefused
    <3>1. conn[c].at # "refused"
      BY DEF NeverRefused
    <3>2. conn'[c].at # conn[c].at => conn'[c].at = "cut"
      BY <2>4
    <3> QED BY <3>1, <3>2
  <2>6. \A q \in Route : session'[q] # 0 <=> (up' /\ pc'[q] = "listen")
    BY <2>1, <2>4 DEF sessions, Ownership
  <2>7. pc' \in [Route -> Pc] /\ up' \in BOOLEAN
    BY <2>1 DEF Ownership
  <2>8. ASSUME NEW c \in Conn
        PROVE  /\ conn'[c].at \in Holding => conn'[c].sid \in Sid
               /\ conn'[c].at = "sending" => conn'[c].sid[1] \in Acme
    <3>1. /\ conn'[c].sid = conn[c].sid
          /\ conn'[c].at # conn[c].at => conn'[c].at = "cut"
      BY <2>4
    <3> QED BY <3>1 DEF Ownership, Holding
  <2> QED BY <2>2, <2>4, <2>5, <2>6, <2>7, <2>8 DEF Ownership
<1>7. CASE JoinNext
  <2>1. /\ up' = FALSE /\ running' = {} /\ pc' = pc
        /\ conn' = [c \in Conn |-> NoConn]
        /\ session' = [r \in Route |-> 0]
    BY <1>7 DEF JoinNext, LeaveAll
  <2>2. Ownership'
    BY <2>1 DEF Ownership, NoConn, Where, Holding
  <2>3. \A s \in Sid : ~Held(s, session', conn')
    BY <1>s, <2>1 DEF Held, NoConn, Holding
  <2> QED BY <2>1, <2>2, <2>3 DEF RuntimeHeld, NeverRefused, NoConn
\* A request's task ends with its connection, and may be the last holder.
<1>8. ASSUME NEW c \in Conn, NEW where \in {"queued", "over"},
             Become(session, Moved(c, where)), UNCHANGED <<up, pc>>
      PROVE  HandoverInv'
  <2> DEFINE conns == Moved(c, where)
  <2>1. conn \in [Conn -> [at : Where, sid : Sid \cup {<<>>}]] /\ session \in [Route -> Number \cup {0}]
    BY DEF Ownership
  <2>2. \A k \in Conn : /\ conns[k].sid = conn[k].sid
                        /\ conns[k].at # conn[k].at => conns[k].at = where
    BY <2>1 DEF Moved
  <2>3. conns \in [Conn -> [at : Where, sid : Sid \cup {<<>>}]]
    BY <2>1 DEF Moved, Where
  <2>4. \A s \in Sid : Held(s, session, conns) => Held(s, session, conn)
    BY <2>2 DEF Held, Holding
  <2>5. Become(session, conns)
    BY <1>8
  <2> HIDE DEF conns
  <2>6. /\ RuntimeHeld' /\ running' \subseteq Sid /\ session' = session
        /\ conn' \in [Conn -> [at : Where, sid : Sid \cup {<<>>}]]
        /\ \A k \in Conn : /\ conn'[k].sid = conns[k].sid
                           /\ conn'[k].at # conns[k].at => conn'[k].at = "cut"
    BY <2>1, <2>3, <2>4, <2>5, BecomeHeld
  <2>7. ASSUME NEW k \in Conn
        PROVE  /\ conn'[k].sid = conn[k].sid
               /\ conn'[k].at # conn[k].at => conn'[k].at \in {"queued", "over", "cut"}
    <3>1. /\ conn'[k].sid = conns[k].sid
          /\ conn'[k].at # conns[k].at => conn'[k].at = "cut"
      BY <2>6
    <3>2. /\ conns[k].sid = conn[k].sid
          /\ conns[k].at # conn[k].at => conns[k].at = where
      BY <2>2
    <3> QED BY <3>1, <3>2
  <2>8. NeverRefused'
    BY <2>7 DEF NeverRefused
  <2>9. ASSUME NEW k \in Conn
        PROVE  /\ conn'[k].at \in Holding => conn'[k].sid \in Sid
               /\ conn'[k].at = "sending" => conn'[k].sid[1] \in Acme
    <3>1. conn'[k].sid = conn[k].sid
      BY <2>7
    <3>2. conn'[k].at \in Holding => conn'[k].at = conn[k].at
      BY <2>7 DEF Holding
    <3>3. conn'[k].at = "sending" => conn'[k].at = conn[k].at
      BY <2>7
    <3> QED BY <3>1, <3>2, <3>3 DEF Ownership
  <2> QED BY <1>8, <2>6, <2>8, <2>9 DEF Ownership
\* A connection moves on without anybody dropping a session.
<1>9. ASSUME NEW c \in Conn, NEW x \in [at : Where, sid : Sid \cup {<<>>}],
             conn' = [conn EXCEPT ![c] = x], UNCHANGED <<session, running, up, pc>>,
             x.at # "refused", x.at \in Holding => x.sid \in Sid,
             x.at = "sending" => x.sid[1] \in Acme,
             x.at \in Holding => Held(x.sid, session, conn),
             conn[c].at \in Holding => x.at \in Holding /\ x.sid = conn[c].sid
      PROVE  HandoverInv'
  <2>1. conn \in [Conn -> [at : Where, sid : Sid \cup {<<>>}]]
    BY DEF Ownership
  <2>2. conn'[c] = x /\ \A k \in Conn \ {c} : conn'[k] = conn[k]
    BY <1>9, <2>1
  <2>3. Ownership'
    BY <1>9, <2>1, <2>2 DEF Ownership
  <2>4. \A s \in Sid : Held(s, session', conn') <=> Held(s, session, conn)
    BY <1>9, <2>2, SMTT(30) DEF Held
  <2>5. RuntimeHeld'
    BY <1>9, <2>4 DEF RuntimeHeld
  <2>6. NeverRefused'
    BY <1>9, <2>2 DEF NeverRefused
  <2> QED BY <2>3, <2>5, <2>6
<1>t. \A c \in Conn : conn[c] \in [at : Where, sid : Sid \cup {<<>>}]
  BY DEF Ownership
<1>10. ASSUME NEW c \in Conn, NEW r \in Route, Arrive(c, r) PROVE HandoverInv'
  <2> DEFINE x == [at |-> "task", sid |-> <<r, session[r]>>]
  <2>1. /\ up /\ pc[r] = "listen" /\ conn[c] = NoConn
        /\ conn' = [conn EXCEPT ![c] = x]
        /\ UNCHANGED <<session, running, up, pc>>
    BY <1>10 DEF Arrive, loops
  <2>2. session[r] \in Number
    BY <2>1 DEF Ownership
  <2>3. <<r, session[r]>> \in Sid
    BY <2>2 DEF Sid
  <2>4. x \in [at : Where, sid : Sid \cup {<<>>}] /\ x.at = "task" /\ x.sid = <<r, session[r]>>
    BY <2>3 DEF Where
  <2>5. Held(x.sid, session, conn)
    BY <2>4 DEF Held
  <2>6. conn[c].at = "none"
    BY <2>1, SMTT(30) DEF NoConn
  <2> HIDE DEF x
  <2> QED BY <1>9, <2>1, <2>3, <2>4, <2>5, <2>6 DEF Holding
<1>11. ASSUME NEW c \in Conn, Inspect(c) PROVE HandoverInv'
  <2>1. PICK w \in {"direct", "sending"} :
              /\ conn' = Moved(c, w)
              /\ w = "sending" => conn[c].sid[1] \in Acme
    BY <1>11 DEF Inspect
  <2> DEFINE x == [at |-> w, sid |-> conn[c].sid]
  <2>2. conn[c].at = "task" /\ UNCHANGED <<session, running, up, pc>>
    BY <1>11 DEF Inspect, loops
  <2>3. conn' = [conn EXCEPT ![c] = x]
    BY <2>1 DEF Moved
  <2>4. x.at = w /\ x.sid = conn[c].sid /\ x.sid \in Sid
    BY <2>2 DEF Ownership, Holding
  <2>5. x \in [at : Where, sid : Sid \cup {<<>>}]
    BY <2>4 DEF Where
  <2>6. Held(x.sid, session, conn)
    BY <2>2, <2>4 DEF Held, Holding
  <2> HIDE DEF x
  <2> QED BY <1>9, <2>1, <2>2, <2>3, <2>4, <2>5, <2>6 DEF Holding
<1>12. ASSUME NEW c \in Conn, Take(c) \/ Accept(c) PROVE HandoverInv'
  <2>1. PICK w \in {"handshake", "bridged", "over"} : conn' = Moved(c, w)
    BY <1>12 DEF Take, Accept
  <2> DEFINE x == [at |-> w, sid |-> conn[c].sid]
  <2>2. conn[c].at \in {"queued", "handshake"} /\ UNCHANGED <<session, running, up, pc>>
    BY <1>12 DEF Take, Accept, loops
  <2>3. conn' = [conn EXCEPT ![c] = x]
    BY <2>1 DEF Moved
  <2>4. x \in [at : Where, sid : Sid \cup {<<>>}] /\ x.at = w
    BY <1>t DEF Where
  <2> HIDE DEF x
  <2> QED BY <1>9, <2>1, <2>2, <2>3, <2>4 DEF Holding
<1>13. ASSUME NEW c \in Conn, Forget(c) PROVE HandoverInv'
  <2>1. /\ conn[c].at \notin Holding /\ conn' = [conn EXCEPT ![c] = NoConn]
        /\ UNCHANGED <<session, running, up, pc>>
    BY <1>13 DEF Forget, loops, Holding
  <2>2. NoConn \in [at : Where, sid : Sid \cup {<<>>}] /\ NoConn.at = "none"
    BY DEF NoConn, Where
  <2> QED BY <1>9, <2>1, <2>2 DEF Holding
<1>14. ASSUME NEW c \in Conn, EndpointEnds(c) PROVE HandoverInv'
  BY <1>8, <1>14 DEF EndpointEnds, loops
<1>15. ASSUME NEW c \in Conn, Send(c) PROVE HandoverInv'
  <2>1. conn[c].at = "sending" /\ UNCHANGED <<up, pc>>
    BY <1>15 DEF Send, loops
  <2>2. conn[c].sid \in Sid /\ conn[c].sid[1] \in Acme
    BY <2>1 DEF Ownership, Holding
  <2>3. Held(conn[c].sid, session, conn)
    BY <2>1 DEF Held, Holding
  <2>4. conn[c].sid \in running
    BY <2>2, <2>3 DEF RuntimeHeld
  <2>5. Become(session, Moved(c, "queued"))
    BY <1>15, <2>4 DEF Send
  <2> QED BY <1>8, <2>1, <2>5
<1>16. CASE UNCHANGED sessionVars
  BY <1>1, <1>16 DEF sessionVars, loops, Ownership
<1> QED
  BY <1>2, <1>3, <1>4, <1>5, <1>6, <1>7, <1>10, <1>11, <1>12, <1>13, <1>14, <1>15, <1>16
  DEF SessionNext, Works, Fails, Serves, HandsOver

\* A certificate runtime lives exactly as long as its session, or the task
\* of a request that came through it, whatever is renewed, lost or ended.
THEOREM RuntimeLivesWithHolders == SessionSpec => []RuntimeHeld
<1>1. HandoverInv /\ [SessionNext]_sessionVars => HandoverInv'
  BY HandoverNext
<1>2. HandoverInv => RuntimeHeld
  BY DEF HandoverInv
<1> QED BY HandoverInit, <1>1, <1>2, PTL DEF SessionSpec

\* So an accepted connection is never turned away by a runtime that is gone.
THEOREM HandoverAccepted == SessionSpec => []NeverRefused
<1>1. HandoverInv /\ [SessionNext]_sessionVars => HandoverInv'
  BY HandoverNext
<1>2. HandoverInv => NeverRefused
  BY DEF HandoverInv
<1> QED BY HandoverInit, <1>1, <1>2, PTL DEF SessionSpec
-----------------------------------------------------------------------------
(***************************************************************************)
(* The types.                                                              *)
(***************************************************************************)
\* What is left of a ticket, and every timer made from it, is at most the
\* longest life time, and a set-up takes no longer than it may.
Counters ==
    /\ left \in [Route -> 0 .. MaxLifetime] /\ after \in [Route -> 0 .. MaxLifetime]
    /\ timer \in [Route -> 0 .. MaxLifetime] /\ spent \in [Route -> 0 .. MaxSetup]

\* Only a connection that does not exist has no session.
Origin == \A c \in Conn : conn[c] = NoConn \/ conn[c].sid \in Sid

\* A ticket of any life time is renewed within the longest (run_oauth).
LEMMA RenewBound ==
    ASSUME NEW l \in Lifetimes
    PROVE  MaxLifetime \in Nat /\ l \in 0 .. MaxLifetime /\ RenewAfter(l) \in 0 .. MaxLifetime
<1>1. MaxLifetime \in Lifetimes /\ l <= MaxLifetime
  BY SessionAssumption DEF MaxLifetime
<1>2. l \in Nat /\ l >= 1 /\ MaxLifetime \in Nat /\ RenewBefore \in Nat
  BY <1>1, SessionAssumption, SMTT(30)
<1>3. RenewAfter(l) \in 0 .. l
  BY <1>2, SMTT(30) DEF RenewAfter
<1> QED BY <1>1, <1>2, <1>3, SMTT(30)

\* The longest life time and the longest set-up bound the counters at rest.
LEMMA ZeroCounted == 0 \in 0 .. MaxLifetime /\ 0 \in 0 .. MaxSetup
<1>1. PICK l \in Lifetimes : TRUE
  BY SessionAssumption
<1> QED BY <1>1, RenewBound, SessionAssumption, SMTT(30)

\* Every step keeps the counters within their bounds (run_oauth).
LEMMA CountersNext ==
    ASSUME Counters, [SessionNext]_sessionVars
    PROVE  Counters'
<1> USE DEF Counters
<1>1. ASSUME NEW r \in Route, Ticket(r) PROVE Counters'
  <2>1. PICK l \in Lifetimes : /\ left' = [left EXCEPT ![r] = l]
                               /\ after' = [after EXCEPT ![r] = RenewAfter(l)]
    BY <1>1 DEF Ticket
  <2>2. spent' = [spent EXCEPT ![r] = 0] /\ timer' = timer
    BY <1>1 DEF Ticket
  <2> QED BY <2>1, <2>2, RenewBound, ZeroCounted
<1>2. ASSUME NEW r \in Route, Listen(r) PROVE Counters'
  <2>1. /\ timer' = [timer EXCEPT ![r] = after[r]] /\ after' = [after EXCEPT ![r] = 0]
        /\ spent' = [spent EXCEPT ![r] = 0] /\ left' = left
    BY <1>2 DEF Listen
  <2> QED BY <2>1, ZeroCounted
<1>3. ASSUME NEW r \in Route, Connect(r) \/ Renew(r) \/ Wake(r) \/ Fails(r) PROVE Counters'
  <2>1. DropTicket(r) \/ UNCHANGED <<left, after, spent, timer>>
    BY <1>3 DEF Connect, Renew, Wake, Fails, TicketFails, TicketRefused, StartFails, SubscriptionEnds
  <2> QED BY <2>1, ZeroCounted DEF DropTicket
<1>4. CASE JoinNext
  BY <1>4, ZeroCounted DEF JoinNext, LeaveAll
<1>5. CASE Restart
  BY <1>5 DEF Restart
<1>6. CASE Tick
  <2>1. /\ left' = [r \in Route |-> IF left[r] > 0 THEN left[r] - 1 ELSE 0]
        /\ timer' = [r \in Route |-> IF r \in OAuth /\ pc[r] = "listen" THEN timer[r] - 1 ELSE timer[r]]
        /\ spent' = [r \in Route |-> IF r \in OAuth /\ pc[r] \in {"connect", "setup"}
                                     THEN spent[r] + 1 ELSE spent[r]]
        /\ after' = after
    BY <1>6 DEF Tick
  <2>2. \A r \in OAuth : /\ pc[r] = "listen" => timer[r] > 0
                         /\ pc[r] \in {"connect", "setup"} => spent[r] < MaxSetup
    BY <1>6 DEF Tick
  <2>3. MaxSetup \in Nat /\ MaxLifetime \in Nat
    BY SessionAssumption, RenewBound
  <2>4. spent' \in [Route -> 0 .. MaxSetup]
    BY <2>1, <2>2, <2>3, SMTT(30)
  <2>5. left' \in [Route -> 0 .. MaxLifetime]
    BY <2>1, <2>3, SMTT(30)
  <2>6. timer' \in [Route -> 0 .. MaxLifetime]
    BY <2>1, <2>2, <2>3, SMTT(30)
  <2> QED BY <2>1, <2>4, <2>5, <2>6
<1>7. ASSUME NEW c \in Conn, Serves(c) \/ EndpointEnds(c) \/ Forget(c) \/ \E r \in Route : Arrive(c, r)
      PROVE  Counters'
  <2>1. UNCHANGED loops
    BY <1>7 DEF Serves, HandsOver, EndpointEnds, Forget, Arrive, Inspect, Send, Take, Accept
  <2> QED BY <2>1 DEF loops
<1>8. CASE UNCHANGED sessionVars
  BY <1>8 DEF sessionVars, loops
<1> QED
  BY <1>1, <1>2, <1>3, <1>4, <1>5, <1>6, <1>7, <1>8 DEF SessionNext, Works

\* A connection keeps the session it came through until it is forgotten.
LEMMA OriginNext ==
    ASSUME Ownership, Origin, [SessionNext]_sessionVars
    PROVE  Origin'
<1>1. conn \in [Conn -> [at : Where, sid : Sid \cup {<<>>}]] /\ NoConn.at = "none"
  BY DEF Ownership, NoConn
\* Whatever step it is, a connection stays, is forgotten, is new, or moves.
<1>2. ASSUME NEW c \in Conn, conn'[c].sid = conn[c].sid, conn[c].at # "none"
      PROVE  conn'[c].sid \in Sid
  BY <1>1, <1>2 DEF Origin
<1>3. ASSUME NEW c \in Conn, NEW w, conn[c].at # "none", conn' = Moved(c, w) PROVE Origin'
  <2>1. conn'[c].sid = conn[c].sid /\ \A k \in Conn \ {c} : conn'[k] = conn[k]
    BY <1>1, <1>3 DEF Moved
  <2> QED BY <1>2, <1>3, <2>1 DEF Origin
<1>4. ASSUME NEW sessions, NEW conns \in [Conn -> [at : Where, sid : Sid \cup {<<>>}]],
             Become(sessions, conns), \A c \in Conn : conns[c] = NoConn \/ conns[c].sid \in Sid
      PROVE  Origin'
  <2> SUFFICES ASSUME NEW c \in Conn PROVE conn'[c] = NoConn \/ conn'[c].sid \in Sid
    BY DEF Origin
  <2> DEFINE dead == {s \in running : ~Held(s, sessions, conns)}
  <2>0. conn' = [k \in Conn |->
              IF conns[k].sid \in dead /\ conns[k].at \in {"queued", "handshake"}
              THEN [conns[k] EXCEPT !.at = "cut"] ELSE conns[k]]
    BY <1>4 DEF Become
  <2> HIDE DEF dead
  <2>1. \/ conn'[c] = conns[c]
        \/ conns[c].at \in {"queued", "handshake"} /\ conn'[c] = [conns[c] EXCEPT !.at = "cut"]
    BY <2>0
  <2>2. conns[c] \in [at : Where, sid : Sid \cup {<<>>}]
    OBVIOUS
  <2>3. CASE conn'[c] = conns[c]
    BY <1>4, <2>3
  <2>4. CASE conns[c].at \in {"queued", "handshake"} /\ conn'[c] = [conns[c] EXCEPT !.at = "cut"]
    <3>1. conns[c].sid \in Sid
      BY <1>1, <1>4, <2>4
    <3>2. conn'[c].sid = conns[c].sid
      BY <2>2, <2>4
    <3> QED BY <3>1, <3>2
  <2> QED BY <2>1, <2>3, <2>4
<1>5. ASSUME NEW c \in Conn, NEW where \in {"queued", "over", "refused"}, conn[c].at # "none",
             Become(session, Moved(c, where))
      PROVE  Origin'
  <2> DEFINE conns == Moved(c, where)
  <2>1. conns \in [Conn -> [at : Where, sid : Sid \cup {<<>>}]]
    BY <1>1 DEF Moved, Where
  <2>2. \A k \in Conn : conns[k] = NoConn \/ conns[k].sid \in Sid
    <3>1. conns[c].sid = conn[c].sid /\ \A k \in Conn \ {c} : conns[k] = conn[k]
      BY <1>1 DEF Moved
    <3>2. conn[c].sid \in Sid
      BY <1>1, <1>5 DEF Origin
    <3> QED BY <3>1, <3>2 DEF Origin
  <2> HIDE DEF conns
  <2>3. Become(session, conns)
    BY <1>5 DEF conns
  <2> QED BY <1>4, <2>1, <2>2, <2>3
<1>6. ASSUME NEW r \in Route, Renew(r) \/ SubscriptionEnds(r) PROVE Origin'
  BY <1>1, <1>4, <1>6 DEF Renew, SubscriptionEnds, Origin
<1>7. ASSUME NEW c \in Conn, NEW r \in Route, Arrive(c, r) PROVE Origin'
  <2>1. <<r, session[r]>> \in Sid
    BY <1>7 DEF Arrive, Ownership, Sid
  <2>2. conn' = [conn EXCEPT ![c] = [at |-> "task", sid |-> <<r, session[r]>>]]
    BY <1>7 DEF Arrive
  <2> QED BY <1>1, <2>1, <2>2 DEF Origin
<1>8. ASSUME NEW c \in Conn, Inspect(c) \/ Take(c) \/ Accept(c) PROVE Origin'
  <2>1. conn[c].at # "none" /\ \E w \in Where : conn' = Moved(c, w)
    BY <1>8 DEF Inspect, Take, Accept, Where
  <2> QED BY <1>3, <2>1
<1>9. ASSUME NEW c \in Conn, Send(c) \/ EndpointEnds(c) PROVE Origin'
  <2>1. conn[c].at # "none"
        /\ \E w \in {"queued", "over", "refused"} : Become(session, Moved(c, w))
    BY <1>9 DEF Send, EndpointEnds
  <2> QED BY <1>5, <2>1
<1>10. ASSUME NEW c \in Conn, Forget(c) PROVE Origin'
  BY <1>1, <1>10 DEF Forget, Origin
<1>11. CASE JoinNext
  BY <1>11 DEF JoinNext, LeaveAll, Origin
<1>12. ASSUME conn' = conn PROVE Origin'
  BY <1>12 DEF Origin
<1>13. ASSUME NEW r \in Route, Works(r) \/ Fails(r) PROVE Origin'
  BY <1>6, <1>12, <1>13
  DEF Works, Fails, Ticket, Connect, Listen, Wake, TicketFails, TicketRefused, StartFails
<1>14. CASE Restart \/ Tick \/ UNCHANGED sessionVars
  BY <1>12, <1>14 DEF Restart, Tick, sessionVars
<1> QED
  BY <1>7, <1>8, <1>9, <1>10, <1>11, <1>13, <1>14 DEF SessionNext, Serves, HandsOver

\* In every reachable state the variables have their types: no counter of a
\* route leaves its bounds, every connection that exists came through a
\* session, and a route has a session exactly while it listens.
THEOREM SessionTypeCorrect == SessionSpec => []SessionTypeOK
<1> DEFINE Inv == HandoverInv /\ Counters /\ Origin
<1>1. SessionInit => Inv
  <2>1. SessionInit => Counters /\ Origin
    BY ZeroCounted DEF SessionInit, Counters, Origin
  <2> QED BY <2>1, HandoverInit
<1>2. Inv /\ [SessionNext]_sessionVars => Inv'
  BY HandoverNext, CountersNext, OriginNext DEF HandoverInv
<1>3. Inv => SessionTypeOK
  <2> SUFFICES ASSUME Ownership, Counters, Origin PROVE SessionTypeOK
    BY DEF HandoverInv
  <2>1. \A c \in Conn : conn[c].at \in Where
    BY DEF Ownership
  <2> QED BY <2>1 DEF Ownership, Counters, Origin, SessionTypeOK, Pc
<1> QED BY <1>1, <1>2, <1>3, PTL DEF SessionSpec
-----------------------------------------------------------------------------
(***************************************************************************)
(* Desktop: a process starts one replacement for itself every 300 ms.      *)
(***************************************************************************)
\* The delays run_local_forever goes through.
Delay == {1, 2, 4, 8, 16, 30}

\* The types, with the bounds that are counted, and the succession.
DesktopInv ==
    /\ DesktopTypeOK /\ file \in Contents
    /\ menus \in Nat /\ spawned \in Nat /\ late \in Nat /\ recent \in BOOLEAN
    /\ Succession

\* Doubling keeps the delay within thirty seconds (run_local_forever).
LEMMA DelayCapped == \A d \in Delay : NextDelay(d) \in Delay
BY SMTT(30) DEF Delay, NextDelay

\* A fresh process has started no replacement and no tunnels.
LEMMA DesktopStarts == DesktopInit => DesktopInv
<1>1. 0 \in 0 .. Events /\ 0 \in Nat
  BY SMTT(30) DEF Events
<1> QED
  BY <1>1 DEF DesktopInit, DesktopInv, DesktopTypeOK, Succession

\* Reading the configuration leaves the local mode exactly to those processes
\* that have routes (parse_client_runtime, desktop::run).
LEMMA StartKeeps ==
    ASSUME DesktopInv, Start
    PROVE  DesktopInv'
<1>1. /\ proc = "starting" /\ proc' \in {"loaded", "gone"}
      /\ UNCHANGED <<spawned, late, recent, menus, events, delay, file>>
  BY DEF Start, bounds
<1>2. /\ mode' \in {"local", "managed", "idle"}
      /\ routes' \in Contents \cup {"none"}
      /\ (mode' = "local") = (routes' # "none")
  BY DEF Start, DesktopInv, DesktopTypeOK, Valid
<1> QED
  BY <1>1, <1>2 DEF DesktopInv, DesktopTypeOK, Succession

\* A change of the file starts a replacement only when the last change is not
\* recent, and makes itself recent (config_changed).
LEMMA ChangeKeeps ==
    ASSUME DesktopInv, ConfigChanged
    PROVE  DesktopInv'
<1>1. /\ proc \in {"running", "leaving"} /\ events > 0 /\ events' = events - 1
      /\ UNCHANGED <<mode, routes, delay, file, menus, late>>
  BY DEF ConfigChanged
<1>2. CASE UNCHANGED <<recent, spawned, proc>>
  BY <1>1, <1>2, SMTT(30) DEF DesktopInv, DesktopTypeOK, Succession, Events
<1>3. CASE ~recent /\ recent' = TRUE /\ UNCHANGED <<spawned, proc>>
  BY <1>1, <1>3, SMTT(30) DEF DesktopInv, DesktopTypeOK, Succession, Events
<1>4. CASE ~recent /\ recent' = TRUE /\ spawned' = spawned + 1 /\ proc' = "leaving"
  BY <1>1, <1>4, SMTT(30) DEF DesktopInv, DesktopTypeOK, Succession, Events
<1>5. \/ UNCHANGED <<recent, spawned, proc>>
      \/ ~recent /\ recent' = TRUE /\ UNCHANGED <<spawned, proc>>
      \/ ~recent /\ recent' = TRUE /\ spawned' = spawned + 1 /\ proc' = "leaving"
  BY DEF ConfigChanged, Replace
<1> QED
  BY <1>2, <1>3, <1>4, <1>5

\* Every step of a process, its user and its successor keeps the invariant.
LEMMA DesktopStep ==
    ASSUME DesktopInv, [DesktopNext]_desktopVars
    PROVE  DesktopInv'
<1> USE DEF DesktopInv, DesktopTypeOK, Succession, bounds
<1>1. CASE Start
  BY <1>1, StartKeeps
<1>2. CASE Watch
  BY <1>2 DEF Watch
<1>3. CASE Edit
  <2>1. file' \in Contents /\ events' \in 0 .. Events
    BY <1>3, SMTT(30) DEF Edit, Events
  <2> QED
    BY <1>3, <2>1 DEF Edit
<1>4. CASE ConfigChanged
  BY <1>4, ChangeKeeps
<1>5. CASE DebounceEnds
  <2>1. UNCHANGED <<proc, mode, routes, events, delay, file, menus, spawned>>
    BY <1>5 DEF DebounceEnds
  <2>2. recent' = FALSE /\ late' \in Nat
    BY <1>5, SMTT(30) DEF DebounceEnds
  <2>3. Succession'
    BY <1>5, <2>1, SMTT(30) DEF DebounceEnds
  <2> QED
    BY <2>1, <2>2, <2>3
<1>6. CASE Leave
  <2>1. 0 \in 0 .. Events /\ 0 \in Nat
    BY SMTT(30) DEF Events
  <2>2. /\ proc' = "starting" /\ spawned' = 0 /\ late' = 0
        /\ events' = 0 /\ recent' = FALSE
        /\ UNCHANGED <<file, menus>>
    BY <1>6 DEF Leave
  <2>3. Succession'
    BY <2>2
  <2> QED
    BY <1>6, <2>1, <2>2, <2>3 DEF Leave
\* Once the menu is used, nothing is claimed about replacements.
<1>7. CASE ToggleRemote \/ ChangeServer \/ Exit
  <2>1. menus' = menus + 1 /\ UNCHANGED <<mode, routes, events, delay, file>>
    BY <1>7 DEF ToggleRemote, ChangeServer, Exit, Clicked
  <2>2. /\ proc = "running" /\ proc' \in {"running", "leaving", "gone"}
        /\ spawned' \in {spawned, spawned + 1} /\ UNCHANGED <<late, recent>>
    BY <1>7 DEF ToggleRemote, ChangeServer, Exit, Clicked, Replace
  <2> QED
    BY <2>1, <2>2, SMTT(30)
<1>8. CASE TunnelStops
  BY <1>8 DEF TunnelStops
<1>9. CASE TunnelRestarts
  <2>1. delay' \in Delay
    BY <1>9, DelayCapped DEF TunnelRestarts, Delay
  <2> QED
    BY <1>9, <2>1 DEF TunnelRestarts, Delay
<1>10. CASE UNCHANGED desktopVars
  BY <1>10 DEF desktopVars, process
<1> QED
  BY <1>1, <1>2, <1>3, <1>4, <1>5, <1>6, <1>7, <1>8, <1>9, <1>10 DEF DesktopNext

\* A process starts at most one replacement for itself because of changes of
\* its file, whatever their number and order, and one more at most for each
\* 300 ms it takes to leave: two successors claim the same requests under one
\* client id (config_changed and its 300 ms).
THEOREM OneSuccessor == DesktopSpec => [](DesktopTypeOK /\ OneReplacement)
<1>1. DesktopInv /\ [DesktopNext]_desktopVars => DesktopInv'
  BY DesktopStep
<1>2. DesktopInv => DesktopTypeOK /\ OneReplacement
  BY SMTT(30) DEF DesktopInv, Succession, OneReplacement
<1> QED
  BY DesktopStarts, <1>1, <1>2, PTL DEF DesktopSpec
=============================================================================
