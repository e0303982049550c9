--------------------------- MODULE CentralConfig ----------------------------
(***************************************************************************)
(* How a centrally managed client follows the document assigned to it: the *)
(* control plane stores documents, notifies event streams and records what *)
(* clients report (controlplane/internal/httpapi/server.go); the client    *)
(* fetches, runs and replaces route sets, driven by pushes and by polling  *)
(* (run_central_with_reporter in client/src/config_source.rs).             *)
(*                                                                         *)
(* A document is its revision: the digest identifies its text, so storing  *)
(* an earlier text brings its revision back.  Delays are not modelled: a   *)
(* timer that is armed may fire at any time.                               *)
(***************************************************************************)
EXTENDS Integers

CONSTANTS
    Revision,    \* revisions of the documents that are ever stored
    Valid,       \* those the client parses and accepts
    None,        \* no revision
    RoutesFail,  \* whether the running routes may stop by themselves
    ChannelCap,  \* capacity of the update channel (4 in the code)
    MaxPuts      \* bound on how often a document is stored

Reported == Revision \cup {None}

ASSUME CentralAssumption ==
    /\ Valid \subseteq Revision
    /\ None \notin Revision
    /\ RoutesFail \in BOOLEAN
    /\ ChannelCap \in Nat \ {0}
    /\ MaxPuts \in Nat

VARIABLES
    stored,     \* the assigned document, in the identity provider
    puts,       \* how often it was stored
    mode,       \* where run_central_with_reporter is
    active,     \* the document whose routes run
    applied,    \* applied_revision, which the client reports
    response,   \* the document in a response on its way to the client
    updates,    \* entries in the client's update channel
    listening,  \* whether push_updates has an event stream
    signal,     \* its notification, in the server's one-place channel
    lingering,  \* revisions announced by streams the client has abandoned
    reported,   \* AppliedConfigRevision in the device registry
    ran         \* every document whose routes were ever started

server == <<stored, puts>>
runtime == <<mode, active, applied, ran>>
push == <<listening, signal, lingering>>
centralVars == <<server, runtime, response, updates, push, reported>>

\* fetch: the loop's own fetch; run: the select loop; refresh: a fetch for an
\* update; stopped and retry: the sleeps after a runtime and a fetch failure.
Mode == {"fetch", "run", "refresh", "stopped", "retry"}

CentralInit ==
    /\ stored = None
    /\ puts = 0
    /\ mode = "fetch"
    /\ active = None
    /\ applied = None
    /\ response = None
    /\ updates = 0
    /\ listening = FALSE
    /\ signal = FALSE
    /\ lingering = {}
    /\ reported = None
    /\ ran = {}
-----------------------------------------------------------------------------
(***************************************************************************)
(* The control plane.                                                      *)
(***************************************************************************)
\* putServicePrincipalConfig stores a document without judging it and
\* notifies the client's stream, unless the stream is another replica's and
\* the message to that replica is lost.
PutConfig(v) ==
    /\ puts < MaxPuts
    /\ puts' = puts + 1
    /\ stored' = v
    /\ \/ signal' = listening
       \/ UNCHANGED signal
    /\ UNCHANGED <<runtime, response, updates, listening, lingering, reported>>

FetchServedNoHeader ==
    /\ mode \in {"fetch", "refresh"}
    /\ response = None
    /\ reported' = None
    /\ response' = stored
    /\ UNCHANGED <<server, runtime, updates, push>>

FetchServedDesired ==
    /\ mode \in {"fetch", "refresh"}
    /\ response = None
    /\ reported' = stored
    /\ response' = stored
    /\ UNCHANGED <<server, runtime, updates, push>>

\* getMachineClientConfig records the revision in the request's header and
\* answers with the stored document (with 404 if there is none).
FetchServed ==
    /\ mode \in {"fetch", "refresh"}
    /\ response = None
    /\ reported' = applied
    /\ response' = stored
    /\ UNCHANGED <<server, runtime, updates, push>>

\* getMachineClientEvents keeps recording the header of the request that
\* opened the stream, until it notices that the client has gone.
Heartbeat ==
    /\ \E v \in lingering \cup (IF listening THEN {active} ELSE {}) : reported' = v
    /\ UNCHANGED <<server, runtime, response, updates, push>>

StreamNoticed(v) ==
    /\ v \in lingering
    /\ lingering' = lingering \ {v}
    /\ UNCHANGED <<server, runtime, response, updates, listening, signal, reported>>
-----------------------------------------------------------------------------
(***************************************************************************)
(* The client's push and poll tasks, which live while routes run.          *)
(***************************************************************************)
Running == mode \in {"run", "refresh"}

Abandoned == IF listening THEN lingering \cup {active} ELSE lingering

OpenStream ==
    /\ Running
    /\ ~listening
    /\ listening' = TRUE
    /\ signal' = FALSE
    /\ reported' = active
    /\ UNCHANGED <<server, runtime, response, updates, lingering>>

StreamDrops ==
    /\ listening
    /\ listening' = FALSE
    /\ signal' = FALSE
    /\ lingering' = Abandoned
    /\ UNCHANGED <<server, runtime, response, updates, reported>>

\* A "config" event reaches push_updates, which waits for room in the channel.
PushUpdate ==
    /\ signal
    /\ updates < ChannelCap
    /\ signal' = FALSE
    /\ updates' = updates + 1
    /\ UNCHANGED <<server, runtime, response, listening, lingering, reported>>

PollWhenDisconnected ==
    /\ Running
    /\ ~listening
    /\ updates < ChannelCap
    /\ updates' = updates + 1
    /\ UNCHANGED <<server, runtime, response, push, reported>>

PollUnbounded ==
    /\ Running
    /\ updates <= ChannelCap
    /\ updates' = updates + 1
    /\ UNCHANGED <<server, runtime, response, push, reported>>

PollUpdate ==
    /\ Running
    /\ updates < ChannelCap
    /\ updates' = updates + 1
    /\ UNCHANGED <<server, runtime, response, push, reported>>
-----------------------------------------------------------------------------
(***************************************************************************)
(* run_central_with_reporter.                                              *)
(***************************************************************************)
\* The loop's fetch brought a valid document: its routes start, with a fresh
\* channel and fresh push and poll tasks.
StartRoutes ==
    /\ mode = "fetch"
    /\ response \in Valid
    /\ mode' = "run"
    /\ active' = response
    /\ applied' = response
    /\ ran' = ran \cup {response}
    /\ response' = None
    /\ UNCHANGED <<server, updates, push, reported>>

\* The control plane cannot be reached, refuses, or returns a document that
\* is not valid.
FetchFails ==
    /\ mode = "fetch"
    /\ response \notin Valid
    /\ mode' = "retry"
    /\ response' = None
    /\ UNCHANGED <<server, active, applied, ran, updates, push, reported>>

\* A response that was sent is lost.
ResponseLost ==
    /\ response # None
    /\ response' = None
    /\ mode' = IF mode = "fetch" THEN "retry" ELSE "run"
    /\ UNCHANGED <<server, active, applied, ran, updates, push, reported>>

RetryFetch ==
    /\ mode \in {"retry", "stopped"}
    /\ mode' = "fetch"
    /\ UNCHANGED <<server, active, applied, ran, response, updates, push, reported>>

TakeUpdate ==
    /\ mode = "run"
    /\ updates > 0
    /\ mode' = "refresh"
    /\ updates' = updates - 1
    /\ UNCHANGED <<server, active, applied, ran, response, push, reported>>

\* The refresh brought the running document, or failed: the routes stay.
KeepRoutes ==
    /\ mode = "refresh"
    /\ response \notin Valid \/ response = active
    /\ mode' = "run"
    /\ response' = None
    /\ UNCHANGED <<server, active, applied, ran, updates, push, reported>>

\* The routes, the push and poll tasks and their channel are dropped.
StopRoutes(next) ==
    /\ mode' = next
    /\ active' = None
    /\ updates' = 0
    /\ listening' = FALSE
    /\ signal' = FALSE
    /\ lingering' = Abandoned
    /\ UNCHANGED <<server, applied, ran, reported>>

\* The refresh brought another document: the routes stop, the document is
\* forgotten and the loop fetches it again.
ReplaceRoutes ==
    /\ mode = "refresh"
    /\ response \in Valid \ {active}
    /\ response' = None
    /\ StopRoutes("fetch")

RoutesStop ==
    /\ RoutesFail
    /\ mode = "run"
    /\ StopRoutes("stopped")
    /\ UNCHANGED response
-----------------------------------------------------------------------------
CentralNext ==
    \/ \E v \in Revision : PutConfig(v)
    \/ FetchServed
    \/ Heartbeat
    \/ \E v \in lingering : StreamNoticed(v)
    \/ OpenStream
    \/ StreamDrops
    \/ PushUpdate
    \/ PollUpdate
    \/ StartRoutes
    \/ FetchFails
    \/ ResponseLost
    \/ RetryFetch
    \/ TakeUpdate
    \/ KeepRoutes
    \/ ReplaceRoutes
    \/ RoutesStop

CentralSpec == CentralInit /\ [][CentralNext]_centralVars

\* Timers fire and abandoned streams are noticed (a write to them fails); the
\* control plane may fail again and again but answers infinitely often.  No
\* notification and no event stream is relied on.
CentralFairness ==
    /\ WF_centralVars(PollUpdate)
    /\ WF_centralVars(TakeUpdate)
    /\ WF_centralVars(RetryFetch)
    /\ WF_centralVars(FetchFails \/ KeepRoutes)
    /\ \A v \in Revision : WF_centralVars(StreamNoticed(v))
    /\ SF_centralVars(FetchServed)
    /\ SF_centralVars(StartRoutes)
    /\ SF_centralVars(ReplaceRoutes)

CentralFairSpec == CentralSpec /\ CentralFairness
-----------------------------------------------------------------------------
\* Every variable has its type: the update channel never holds more than it
\* can, and only documents the client accepts are ever run.
CentralTypeOK ==
    /\ {stored, active, applied, response, reported} \subseteq Reported
    /\ puts \in 0..MaxPuts
    /\ mode \in Mode
    /\ updates \in 0..ChannelCap
    /\ {listening, signal} \subseteq BOOLEAN
    /\ lingering \subseteq Revision
    /\ ran \subseteq Valid

\* What the console shows as applied was really run: the registry never
\* records a revision whose routes the client did not start, although the
\* header of an old stream, a fetch and a heartbeat can be recorded in any
\* order (recordDevicePresence).
ReportedRan == reported # None => reported \in ran

\* Once the assigned document stops changing, a client that can run it comes
\* to run it, even if every notification is lost (poll_updates).
Converges ==
    \A v \in Valid : (puts = MaxPuts /\ stored = v) ~> (active = v)

\* From then on the registry comes to show that document as applied and keeps
\* showing it: abandoned streams stop overwriting it with what they announced.
ReportSettles ==
    \A v \in Valid : (puts = MaxPuts /\ stored = v) ~> [](reported = v)

\* The client "keeps the last valid configuration running when the control
\* plane is unavailable" (README): a failed fetch does not find it without
\* routes once it has applied a document.
RoutesRetained == mode = "retry" /\ applied # None => active # None
=============================================================================
