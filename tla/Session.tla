------------------------------ MODULE Session -------------------------------
(***************************************************************************)
(* The sessions of a tunnel client's routes: run_all, run_session,         *)
(* run_oauth and process_messages in client/src/lib.rs, with the ticket    *)
(* exchange of oauth.rs, the connection of shared/src/nats.rs, and the     *)
(* certificate runtime that a session owns and hands connections to        *)
(* (client/src/acme.rs).                                                   *)
(*                                                                         *)
(* Time is counted down: what is left of a ticket and of the renewal       *)
(* timer.  A session is a pair of its route and a number; AppState, with   *)
(* the AcmeRuntime in it, is dropped when neither process_messages nor the *)
(* task of a request holds a clone of it.                                  *)
(***************************************************************************)
EXTENDS Integers, FiniteSets

CONSTANTS
    Route,        \* the routes of the process
    OAuth,        \* those with an OAuth ticket, the others use a token file
    Acme,         \* those that terminate TLS themselves
    Conn,         \* connections won by this client
    Lifetimes,    \* seconds a ticket may be valid for when it is received
    RenewBefore,  \* renew_before_seconds
    ChannelCap,   \* room in the hand-over channel (64 in the code)
    MaxSetup,     \* bound on the seconds from a ticket to its subscription
    MaxMishaps    \* bound on failures

MaxLifetime == CHOOSE l \in Lifetimes : \A k \in Lifetimes : k <= l

ASSUME SessionAssumption ==
    /\ OAuth \subseteq Route /\ Acme \subseteq Route
    /\ Lifetimes \subseteq Nat \ {0} /\ \E l \in Lifetimes : \A k \in Lifetimes : k <= l
    /\ RenewBefore \in Nat /\ MaxSetup \in Nat /\ MaxMishaps \in Nat
    /\ ChannelCap \in Nat \ {0}

VARIABLES
    up,        \* whether run_all is running
    pc,        \* where the loop of each route is
    left,      \* what is left of the route's ticket
    after,     \* renew_after of that ticket, until the timer is set
    spent,     \* time since the ticket was received, until the route listens
    timer,     \* what is left of the renewal timer
    session,   \* the number of the route's session, 0 for none
    running,   \* sessions whose run_acme task runs
    conn,      \* each connection: where it is, and the session it came through
    mishaps

loops == <<up, pc, left, after, spent, timer>>
sessionVars == <<loops, session, running, conn, mishaps>>

\* One number more than connections: a new session finds one that is free.
Number == 1 .. Cardinality(Conn) + 1
Sid == Route \X Number
NoConn == [at |-> "none", sid |-> <<>>]

Begin(r) == IF r \in OAuth THEN "ticket" ELSE "connect"

SessionInit ==
    /\ up = TRUE
    /\ pc = [r \in Route |-> Begin(r)]
    /\ left = [r \in Route |-> 0]
    /\ after = [r \in Route |-> 0]
    /\ spent = [r \in Route |-> 0]
    /\ timer = [r \in Route |-> 0]
    /\ session = [r \in Route |-> 0]
    /\ running = {}
    /\ conn = [c \in Conn |-> NoConn]
    /\ mishaps = 0
-----------------------------------------------------------------------------
(***************************************************************************)
(* Who holds a session.                                                    *)
(***************************************************************************)
\* The task of a request holds AppState until its connection is over or
\* handed on.
Holding == {"task", "sending", "direct"}

Held(s, sessions, conns) ==
    \/ sessions[s[1]] = s[2]
    \/ \E c \in Conn : conns[c].sid = s /\ conns[c].at \in Holding

\* The sessions now and the connections now; AcmeRuntimeInner::drop aborts
\* the run_acme task with what it has not yet passed on.
BecomeNoAbort(sessions, conns) ==
    /\ session' = sessions
    /\ running' = running
    /\ conn' = conns

BecomeOnlySession(sessions, conns) ==
    /\ session' = sessions
    /\ running' = {s \in running : sessions[s[1]] = s[2]}
    /\ conn' = conns

Become(sessions, conns) ==
    LET dead == {s \in running : ~Held(s, sessions, conns)}
    IN  /\ session' = sessions
        /\ running' = running \ dead
        /\ conn' = [c \in Conn |->
              IF conns[c].sid \in dead /\ conns[c].at \in {"queued", "handshake"}
              THEN [conns[c] EXCEPT !.at = "cut"] ELSE conns[c]]

Moved(c, where) == [conn EXCEPT ![c] = [at |-> where, sid |-> conn[c].sid]]
-----------------------------------------------------------------------------
(***************************************************************************)
(* The loop of a route.                                                    *)
(***************************************************************************)
RenewAfterWhole(lifetime) == lifetime

RenewAfter(lifetime) ==
    IF lifetime > RenewBefore + 5 THEN lifetime - RenewBefore
    ELSE IF lifetime \div 2 > 1 THEN lifetime \div 2 ELSE 1

Goto(r, where) == pc' = [pc EXCEPT ![r] = where]

\* The ticket goes with the session it was for.
DropTicket(r) ==
    /\ left' = [left EXCEPT ![r] = 0]
    /\ after' = [after EXCEPT ![r] = 0]
    /\ spent' = [spent EXCEPT ![r] = 0]
    /\ timer' = [timer EXCEPT ![r] = 0]

Mishap == mishaps < MaxMishaps /\ mishaps' = mishaps + 1

TicketRenewsLate(r) ==
    /\ up /\ pc[r] = "ticket"
    /\ \E l \in Lifetimes :
          /\ left' = [left EXCEPT ![r] = l]
          /\ after' = [after EXCEPT ![r] = l + RenewBefore]
    /\ spent' = [spent EXCEPT ![r] = 0]
    /\ Goto(r, "connect")
    /\ UNCHANGED <<up, timer, session, running, conn, mishaps>>

Ticket(r) ==
    /\ up /\ pc[r] = "ticket"
    /\ \E l \in Lifetimes :
          /\ left' = [left EXCEPT ![r] = l]
          /\ after' = [after EXCEPT ![r] = RenewAfter(l)]
    /\ spent' = [spent EXCEPT ![r] = 0]
    /\ Goto(r, "connect")
    /\ UNCHANGED <<up, timer, session, running, conn, mishaps>>

\* The exchange fails, or the ticket has expired on arrival.
TicketFails(r) ==
    /\ up /\ pc[r] = "ticket"
    /\ Mishap
    /\ Goto(r, "sleep")
    /\ UNCHANGED <<up, left, after, spent, timer, session, running, conn>>

\* A ticket for another client id ends the route.
TicketRefused(r) ==
    /\ up /\ pc[r] = "ticket"
    /\ Mishap
    /\ Goto(r, "ended")
    /\ UNCHANGED <<up, left, after, spent, timer, session, running, conn>>

Connect(r) ==
    /\ up /\ pc[r] = "connect"
    /\ Goto(r, "setup")
    /\ UNCHANGED <<up, left, after, spent, timer, session, running, conn, mishaps>>

\* connect_nats fails, or subscribing, the policies or the certificate
\* runtime do; only an OAuth route tries again.
StartFails(r) ==
    /\ up /\ pc[r] \in {"connect", "setup"}
    /\ Mishap
    /\ Goto(r, IF r \in OAuth THEN "sleep" ELSE "ended")
    /\ DropTicket(r)
    /\ UNCHANGED <<up, session, running, conn>>

Free(r) == {n \in Number : <<r, n>> \notin running /\ \A c \in Conn : conn[c].sid # <<r, n>>}

\* Subscribed, policies loaded, runtime started: only now the timer is set.
Listen(r) ==
    /\ up /\ pc[r] = "setup"
    /\ \E n \in Free(r) :
          /\ \A k \in Free(r) : n <= k
          /\ session' = [session EXCEPT ![r] = n]
          /\ running' = IF r \in Acme THEN running \cup {<<r, n>>} ELSE running
    /\ timer' = [timer EXCEPT ![r] = after[r]]
    /\ after' = [after EXCEPT ![r] = 0]
    /\ spent' = [spent EXCEPT ![r] = 0]
    /\ Goto(r, "listen")
    /\ UNCHANGED <<up, left, conn, mishaps>>

Renew(r) ==
    /\ up /\ pc[r] = "listen" /\ r \in OAuth /\ timer[r] = 0
    /\ Goto(r, "ticket")
    /\ DropTicket(r)
    /\ Become([session EXCEPT ![r] = 0], conn)
    /\ UNCHANGED <<up, mishaps>>

SubscriptionEnds(r) ==
    /\ up /\ pc[r] = "listen"
    /\ Mishap
    /\ Goto(r, IF r \in OAuth THEN "sleep" ELSE "ended")
    /\ DropTicket(r)
    /\ Become([session EXCEPT ![r] = 0], conn)
    /\ UNCHANGED up

WakeNever(r) == up /\ pc[r] = "sleep" /\ UNCHANGED sessionVars

Wake(r) ==
    /\ up /\ pc[r] = "sleep"
    /\ Goto(r, "ticket")
    /\ UNCHANGED <<up, left, after, spent, timer, session, running, conn, mishaps>>

\* The process exits with its tickets, sessions, runtimes and connections.
LeaveAll ==
    /\ left' = [r \in Route |-> 0]
    /\ after' = [r \in Route |-> 0]
    /\ spent' = [r \in Route |-> 0]
    /\ timer' = [r \in Route |-> 0]
    /\ session' = [r \in Route |-> 0]
    /\ running' = {}
    /\ conn' = [c \in Conn |-> NoConn]

JoinAll ==
    /\ up /\ \A r \in Route : pc[r] = "ended"
    /\ up' = FALSE
    /\ LeaveAll
    /\ UNCHANGED <<pc, mishaps>>

\* run_all returns when one route has ended; the process exits with it.
JoinNext ==
    /\ up /\ \E r \in Route : pc[r] = "ended"
    /\ up' = FALSE
    /\ LeaveAll
    /\ UNCHANGED <<pc, mishaps>>

\* The service supervisor starts the whole set again.
Restart ==
    /\ ~up
    /\ up' = TRUE
    /\ pc' = [r \in Route |-> Begin(r)]
    /\ UNCHANGED <<left, after, spent, timer, session, running, conn, mishaps>>

\* A second passes.  Timers fire in time, and a set-up is bounded.
Tick ==
    /\ up
    /\ \A r \in OAuth : /\ pc[r] = "listen" => timer[r] > 0
                        /\ pc[r] \in {"connect", "setup"} => spent[r] < MaxSetup
    /\ left' = [r \in Route |-> IF left[r] > 0 THEN left[r] - 1 ELSE 0]
    /\ timer' = [r \in Route |-> IF r \in OAuth /\ pc[r] = "listen" THEN timer[r] - 1 ELSE timer[r]]
    /\ spent' = [r \in Route |-> IF r \in OAuth /\ pc[r] \in {"connect", "setup"}
                                 THEN spent[r] + 1 ELSE spent[r]]
    /\ UNCHANGED <<up, pc, after, session, running, conn, mishaps>>
-----------------------------------------------------------------------------
(***************************************************************************)
(* Connections: the request's task, the hand-over to run_acme, and the     *)
(* task that serves a terminated connection.                               *)
(***************************************************************************)
\* A request arrives whose claim will be accepted.
Arrive(c, r) ==
    /\ up /\ pc[r] = "listen" /\ conn[c] = NoConn
    /\ conn' = [conn EXCEPT ![c] = [at |-> "task", sid |-> <<r, session[r]>>]]
    /\ UNCHANGED <<loops, session, running, mishaps>>

\* Its callback is open; only what is not plaintext HTTP is handed over.
Inspect(c) ==
    /\ conn[c].at = "task"
    /\ \/ conn' = Moved(c, "direct")
       \/ conn[c].sid[1] \in Acme /\ conn' = Moved(c, "sending")
    /\ UNCHANGED <<loops, session, running, mishaps>>

Queued(s) == {c \in Conn : conn[c].sid = s /\ conn[c].at = "queued"}

\* accept: the task ends with the send, and drops its clone of AppState.
Send(c) ==
    /\ conn[c].at = "sending"
    /\ \/ /\ conn[c].sid \in running
          /\ Cardinality(Queued(conn[c].sid)) < ChannelCap
          /\ Become(session, Moved(c, "queued"))
       \/ /\ conn[c].sid \notin running
          /\ Become(session, Moved(c, "refused"))
    /\ UNCHANGED <<loops, mishaps>>

TakeHeld(c) ==
    /\ conn[c].at = "queued" /\ conn[c].sid \in running
    /\ \E k \in Conn \ {c} : conn[k].sid = conn[c].sid /\ conn[k].at = "queued"
    /\ conn' = Moved(c, "handshake")
    /\ UNCHANGED <<loops, session, running, mishaps>>

\* run_acme polls the channel and the handshakes it has begun.
Take(c) ==
    /\ conn[c].at = "queued" /\ conn[c].sid \in running
    /\ conn' = Moved(c, "handshake")
    /\ UNCHANGED <<loops, session, running, mishaps>>

\* bridge_tls gets a task of its own; or the handshake fails, or was one of
\* the certificate authority.
Accept(c) ==
    /\ conn[c].at = "handshake" /\ conn[c].sid \in running
    /\ \/ conn' = Moved(c, "bridged")
       \/ conn' = Moved(c, "over")
    /\ UNCHANGED <<loops, session, running, mishaps>>

\* An endpoint ends the connection, or the callback was not accepted.
EndpointEnds(c) ==
    /\ conn[c].at \in {"task", "direct", "bridged"}
    /\ Become(session, Moved(c, "over"))
    /\ UNCHANGED <<loops, mishaps>>

Forget(c) ==
    /\ conn[c].at \in {"over", "cut", "refused"}
    /\ conn' = [conn EXCEPT ![c] = NoConn]
    /\ UNCHANGED <<loops, session, running, mishaps>>
-----------------------------------------------------------------------------
Works(r) == Ticket(r) \/ Connect(r) \/ Listen(r) \/ Renew(r) \/ Wake(r)
Fails(r) == TicketFails(r) \/ TicketRefused(r) \/ StartFails(r) \/ SubscriptionEnds(r)
HandsOver(c) == Send(c) \/ Take(c)
Serves(c) == Inspect(c) \/ HandsOver(c) \/ Accept(c)

SessionNext ==
    \/ \E r \in Route : Works(r) \/ Fails(r)
    \/ JoinNext \/ Restart \/ Tick
    \/ \E c \in Conn : Serves(c) \/ EndpointEnds(c) \/ Forget(c)
    \/ \E c \in Conn, r \in Route : Arrive(c, r)

SessionSpec == SessionInit /\ [][SessionNext]_sessionVars

\* Each task is scheduled, remote calls end, the clock runs and a failed
\* process is started again; a task waiting to hand over sends when there is
\* room, and run_acme takes what is queued.  No connection need arrive, be
\* inspected or end, and no visitor need finish a handshake: run_acme sets no
\* deadline for one.
SessionFairness ==
    /\ \A r \in Route : WF_sessionVars(Works(r))
    /\ WF_sessionVars(JoinNext) /\ WF_sessionVars(Restart) /\ WF_sessionVars(Tick)
    /\ \A c \in Conn : WF_sessionVars(HandsOver(c))

SessionFairSpec == SessionSpec /\ SessionFairness
-----------------------------------------------------------------------------
(***************************************************************************)
(* Properties.                                                             *)
(***************************************************************************)
Where == {"none", "task", "sending", "direct", "queued", "handshake", "bridged",
          "over", "cut", "refused"}

\* The type invariant.
SessionTypeOK ==
    /\ pc \in [Route -> {"ticket", "connect", "setup", "listen", "sleep", "ended"}]
    /\ left \in [Route -> 0 .. MaxLifetime]
    /\ timer \in [Route -> 0 .. MaxLifetime]
    /\ spent \in [Route -> 0 .. MaxSetup]
    /\ running \subseteq Sid
    /\ \A c \in Conn : conn[c].at \in Where /\ (conn[c] = NoConn \/ conn[c].sid \in Sid)
    /\ \A r \in Route : (session[r] # 0) <=> (up /\ pc[r] = "listen")

\* A route listens with a ticket that has not expired, and has renewed it in
\* time, however long the ticket is valid (renew_after in run_oauth).
ListensWithTicket == \A r \in OAuth : up /\ pc[r] = "listen" => left[r] > 0

\* Whatever failed, every route comes to listen again.
ListensAgain == \A r \in Route : []<>(up /\ pc[r] = "listen")

\* When a route has ended, the whole process exits instead of serving some
\* of its hostnames only (run_all).
CompleteSet == \A r \in Route : (up /\ pc[r] = "ended") ~> ~up

\* A run_acme task runs exactly as long as its session or the task of one of
\* the session's requests: neither is it left behind when a session is
\* replaced, nor does it go while a request may still need it.
RuntimeHeld ==
    \A s \in Sid : s \in running <=> s[1] \in Acme /\ Held(s, session, conn)

\* No accepted connection finds its certificate runtime gone, although the
\* session it came through may have been replaced in the meantime (accept).
NeverRefused == \A c \in Conn : conn[c].at # "refused"

\* A connection handed to run_acme gets to its handshake or is cut with its
\* session: visitors who stall in their handshakes, for ever if they like,
\* and sessions that are replaced leave nothing in a channel nobody reads.
HandoverSettles ==
    \A c \in Conn : conn[c].at \in {"sending", "queued"} ~>
                    conn[c].at \notin {"sending", "queued"}

=============================================================================
