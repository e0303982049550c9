# Verification of lfp-pipe

lfp-pipe exposes private services through a public ingress. An **ingress**
process accepts public TCP connections, asks over NATS which **client** can
serve each of them, and relays the connection to a socket the selected client
opens back to it. A **control plane** issues tickets, stores the routes of
managed clients and shows which devices are online.

This directory holds TLA+ models of the parts where the order of events
matters, the TLC configurations that check them and the proofs TLAPS checks.
`PROJECT.json` relates every definition to the lines it models.

## The system and its models

| Part | What is hard about it | Modules |
|---|---|---|
| ingress, `ingress/src/lib.rs` | many handlers, callbacks and timers meet in one map; every early return must give back a permit | `Tunnel`, `ClaimSelection`, `RoundRobin`, `Pairing` |
| client requests, `client/src/lib.rs` | the decision races the timeout; NATS loses messages | `Tunnel` |
| client sessions and certificates, `client/src/lib.rs`, `oauth.rs`, `acme.rs` | renewal times; a runtime that is dropped with its session while connections wait in it | `Session` |
| managed configuration, `client/src/config_source.rs` | two fetches per change; pushes, polls and failures in any order | `CentralConfig` |
| proxy and authorization, `client/src/http_proxy.rs`, `authorization.rs` | many requests, rules and policies on one connection; rotating keys and their cache file | `HttpProxy`, `KeyCache` |
| matching, `shared/src/routing.rs` | segments and labels decided by comparing characters | `Routing`, `HostNames`, `RoutingFacts` |
| relay, `shared/src/io.rs` | half-closes, errors between reading and writing, a probe all connections wait for | `Relay` |
| client configuration, `shared/src/config.rs` | four layers of optional settings with switches | `ConfigLayers` |
| desktop, `client/src/desktop.rs`, `desktop_settings.rs` | a process replaced by its successor while files change | `Desktop`, `Enrollment` |
| device registry, `httpapi/server.go` | replicas exchange reports over NATS with clocks of their own; a lease that ends silently | `Presence`, `CentralConfig` |
| enrollment and provisioning, `httpapi/server.go`, `authentik/provisioner.go` | several remote calls per operation, any of which may fail or lose its answer; replicas | `Enrollment`, `Provisioner` |

The parts meet as follows. The ingress asks clients about a visitor's
connection and pairs it (`Tunnel`); the client inspects it, applies rules and
policies (`HttpProxy`, with `Routing` and `KeyCache`) or hands it to its
certificate runtime (`Session`), and both sides relay bytes (`Relay`). A client
listens because it holds a ticket (`Session`), with routes from its own file
(`ConfigLayers`, `Desktop`) or from the control plane (`CentralConfig`), which
it can use once it is enrolled (`Enrollment`) and its route application exists
(`Provisioner`); the console shows it (`Presence`).

Modules `MC*` give constants their values. `ControlPlane` declares what
`Enrollment` and `Provisioner` share, `TunnelInvariant` holds the inductive
invariant of `Tunnel`, and the modules `*Proofs` hold the theorems (see
[Proofs](#proofs)).

### Tunnel

`phase[k]` is where the handler of the public connection `k` stands:
`detect`, `passthrough`, `prepare` (before the broadcast), `await` (no claim
yet), `collect` (the window after the first claim), `ack` (publishing
decisions), `granted` (the winner was returned, the entry is not in the map
yet), `pending`, `relay` and `closed`. Each `await` point at which another task
may run separates two phases, so `granted` exists because the code publishes
the decision before it inserts the pending entry. `task[c][k]` is the client's
`handle_request`, `sock[c][k]` the callback socket as the ingress sees it.
`permit` and `handshakes` are the two semaphores, as the sets of their holders.
`DropSocket` is what dropping the handler's or the map's values does: socket,
permit, claims and inbox go together.

- NATS delivers a message at most once, in any order; each publish may reach
  any subset of its subscribers. A message to an inbox that is gone is dropped.
- A timer may fire whenever it is armed, so that every race between a deadline
  and a late message is a behaviour.
- Client ids are distinct numbers; their order stands for that of the strings.
  Two clients configured with the same id are not modelled.
- Clients in `Stray` send what the protocol does not ask for: a claim the
  ingress cannot accept and a callback with the id of a connection they saw
  but did not win.
- Bytes (preface, prefix line, JSON, relayed data) are abstracted to what the
  handler learns from them.

### CentralConfig

A document is its revision. The constant `Valid` holds those the client
accepts; the control plane stores others too. `listening` and `signal` are the client's event
stream and the one-place channel behind it; `lingering` holds the revisions
announced by streams the client has abandoned and the server has not noticed.
`response` is an answer on its way. The fingerprint comparison covers the
document only, not the identity settings fetched with it; retry delays are
left out; a single registry stands for the replicas'. A request that arrives
after its client has given up on it is not modelled.

### Session

`pc[r]` is where `run_oauth` (or, without OAuth, `run_session`) of a route
stands. Time counts down in `left` (the ticket) and `timer` (the renewal); the
constant `MaxSetup` bounds the time from the ticket to the armed timer. A
session is a pair of its route and a number, `running` the certificate
runtimes whose task was not aborted. `Become` is the one place where holders
change, and aborts the runtimes nobody holds, as `AcmeRuntimeInner::drop` does.
`conn[c].at` follows a paired connection through the channel, the handshake
and the bridge. When the client is centrally managed a failing `run_all` ends
the routes and not the process, which is `CentralConfig`'s subject.

### Relay and Routing

`Relay` numbers the bytes of a direction; `cell` is the `OnceCell` of the
splice probe. Taking a byte from a socket and giving it to the other are
separate steps, and an error may strike between them; the copying itself
(`Take`, `Give`, `Shut`, `Finish`) is tokio's or tokio-splice2's and modelled
from its use. `Routing` translates the
operations on paths and `HostNames` those on host names over a small alphabet;
`RoutingFacts` compares them with definitions by segments and labels for all
pairs of short strings.

### HttpProxy and KeyCache

`HttpProxy` is one connection after another of one user agent, with a
configuration chosen initially among those of `MCHttpProxy`; only those that
`process_messages` accepts (`Startable`) go on. A request is matched, limited,
authorized, prepared and forwarded in the order of `handle_request_inner`.
The session cookie is named for the registration (issuer and client id), so
policies of one registration share it, and roles are checked when it is
issued; `AuthorizedIndependently` says what follows for each request. Tokens,
accounts and `backend_host` may hold text that no header can carry, and every
step of a sign-in may be answered with an error instead. A path
is a sequence over `Char` that begins with a slash; `ProxyAssumption` says what
a configuration and a request consist of. `MostSpecificWins` is stated by
`Covers`, of a path and its ancestors, which the matching does not use; the
assumption `PrefixBySegments` of `RoutingFacts` compares `Covers` with lists of
segments. First bytes that do not arrive in time count as not HTTP.

`KeyCache` keeps ages instead of times; each is capped where the code no longer
tells it from a larger one. An authorizer is the state of one policy in one
session. Several may share a cache file, because sessions and routes do, and
one stays in use until the last connection of its session is gone
(`Released`). Writing the file and replacing the keys are two steps; a request
whose connection ends is dropped at either (`Dropped`).

### ConfigLayers and Desktop

`ConfigLayers` edits one table of a document at a time and loads the document
after each edit; its properties compare the two results. Documents have two
routes, the first with up to two paths, in the multi-route form, or one in the
older single-route form with rules with and without a prefix; `DocumentOK`, in
`ConfigAssumption`, says what a document is. A rule without a policy of its own
takes its route's when the document is loaded or when the session starts
(`BackendPolicy`), and `RouteProtectsPaths` is about the two together.
`Desktop` is a chain of processes. A process that is being replaced goes on
watching its file until it is gone; `late` counts the debounces of 300 ms that
ended in that time, each of which lets one more change start a replacement.

### Enrollment and Provisioner

Each remote call is a step of its own; it may fail without effect or lose its
answer, within `MaxFaults`. Enrollments live in the memory of one replica and
any replica may be asked; `MaxAccounts` bounds the accounts that approvals
create. An account's user name and secret are numbers that
are equal when they belong together. Authentik is external: it keeps one
provider and one group of a name, and finds a provider by its application.
`foreign` says that the slug of the route application belongs to an application
without the provider; the code accepts any application of that slug.

### Presence

One unit of time is five seconds: heartbeats every 4, a lease of 9. Clocks
differ by at most `MaxSkew`, messages take at most `MaxDelay`. Besides the
heartbeats of its stream a client is seen when it fetches its configuration,
at any replica, and by streams it has abandoned (`OtherContact`). `heard`,
`beat` and the field `real` record what really happened, for the properties.

## Runs

Every run's question is in `PROJECT.json`; this is what the instances are.

| Run | Instance | Shows |
|---|---|---|
| `tunnel_interleavings` | 2 connections, 2 clients, no limits | pairing with the winner only, decision before pending, refinement of `Pairing` |
| `tunnel_limits` | 1 permit for public connections and 2 for callbacks, a stray client, a passthrough host, domain routing, one outage of any kind at any point | permits are neither leaked nor exceeded on any path; the promise survives restarts, exits and lost sessions |
| `tunnel_liveness` | 1 connection, limits 1, a stray client, one outage | connections, claimants and callbacks settle |
| `round_robin_stable` | any cursor, stable claimants | they take turns |
| `central_config` | 3 documents (1 invalid), 3 updates, a channel of 4 | client and registry converge |
| `http_proxy` | 7 configurations with overlapping prefixes, shared and separate registrations, limits, values no header can carry; paths up to 5 and names up to 4 characters for `RoutingFacts` | rule, limits, authorization and headers of each request |
| `session` | an OAuth and a static route, life times on both sides of the case distinction in `run_oauth`, 1 mishap, 2 connections, a channel of 1 | tickets outlast sessions, routes listen again and stop together, runtimes live with their holders, hand-overs settle |
| `config_layers` | 2 edits of documents in both forms | what loads is usable, a route's policy covers its paths, edits do what they are meant for |

Why the bounds are enough: two connections, clients or requests are the least
that can cross each other, and no handler looks at a third. Strings are long
enough for two segments or labels on either side of a boundary. One outage or
mishap at any point reaches every step that can be cut off. `ConnSymmetry` and
`RequestSymmetry` are used for safety only. Deadlock is not checked where a
bounded number of requests, edits or time units ends a behaviour.

### Further configurations

The modules that are proved have small instances as well, with which the
invariants were found and which also check liveness. They are not among the
runs; each takes at most about six minutes.

| Configuration | Module | Instance | Checks beside the proved invariants |
|---|---|---|---|
| `KeyCache.cfg` | `MCKeyCache` | 2 authorizers that share a cache file, 2 keys, 1 request | |
| `KeyCacheLiveness.cfg` | `MCKeyCache` | 1 authorizer, 1 request | requests are answered, a rotated key is reached |
| `Relay.cfg`, `RelayLiveness.cfg` | `Relay` | 1 relay of 3 bytes each way; 2 of 1 byte | relays end once their peers have closed |
| `Presence.cfg` | `Presence` | 2 replicas, skew 1, delay 3, 1 loss, 2 streams, 2 other contacts | |
| `Desktop.cfg` | `MCDesktop` | 2 edits, 1 click, 1 fault | a change after 300 quiet milliseconds is applied, tunnels return |
| `Enrollment.cfg`, `EnrollmentApproval.cfg` | `Enrollment` | 2 replicas, 2 approvals, 2 codes, 2 faults; 3 approvals without faults | the attempt ends; an approval in time arrives |
| `Provisioner.cfg`, `ProvisionerReplicas.cfg` | `Provisioner` | 3 requests, 1 or 2 replicas, 2 or 1 faults | requests end; a repeated request completes the groups |
| `HttpProxySignIn.cfg` | `MCHttpProxy` | 3 configurations, 1 expiry | a sign-in returns to the page that was asked for |

### Where the code differs from what is said of it

Each of these runs violates one property; the quotes are in `PROJECT.json`.

- `tunnel_late_claim`: a claim that arrives after the window is unanswered.
- `tunnel_early_callback`: the winner may call back before its entry is in the
  pending map; it is refused, and the public socket waits for its expiry.
- `round_robin_changing`: with changing claimants a client may always lose.
- `central_retained`: routes are dropped before the second fetch, which may
  fail.

### What the properties leave out

- `ListensWithTicket` needs a set-up (connecting, loading policies,
  subscribing) shorter than the margin between renewal and expiry, because the
  renewal timer is armed after it; `MaxSetup` is below the margin in the run
  and `PromptSetup` is the theorem's hypothesis.
- `RuntimeHeld` says when a certificate runtime ends. Connections that still
  wait in its queue or its handshakes end with it.
- `MostSpecificWins` does not say that a chosen prefix is the innermost one
  when it ends in several slashes: specificity is the raw length of a prefix.
- A session is not worth the roles of the policy that is asked for but those of
  some policy of its registration (`SessionsAreEarned`, `BrowserHasRoles`); the
  two are the same where the policies of a registration ask for the same roles.
- `CacheCarriesOver` says that the cache file can be loaded as long as the keys
  can be used, not that it holds the same keys: another authorizer may have
  written it since, and a request may be dropped between the two steps.
- `PairMatches` excludes a client whose secret file was removed, and
  `OneReplacement` a process whose menu was used. A process that takes longer
  than 300 ms to leave may start a second replacement; `OneReplacement` counts
  how often that can happen.
- `ReportedComplete` excepts a slug that belonged to another application before:
  the code then reports success although the provider has no application.
- `RegisteredStays` needs one replica: the mutex that makes the update of the
  address list one step is local to a process. A provider whose application
  could not be created is not found again by later requests, so none of the
  properties says that a repeated request succeeds then.

## Fairness

A runnable task runs and an armed timer fires; this is weak fairness of the
steps of the runtime. Beyond it:

- `Tunnel`: nothing about messages, peers, relays or outages, so each liveness
  property rests on the code's own deadlines.
- `CentralConfig`, `KeyCache`: the control plane or the identity provider
  answers infinitely often although it may fail infinitely often (strong
  fairness), and tokens signed with a published key keep arriving. No
  notification and no event stream is relied on.
- `HttpProxy`: the browser follows redirects and the provider returns it;
  expiries are bounded.
- `Relay`: copying goes on; peers close or not as they like, and `RelayEnds`
  speaks of those that do.
- `Session`, `Desktop`, `Enrollment`: timers, retries and
  process starts; faults are bounded. For `HandoverSettles` only the task that
  hands a connection over and the runtime's loop that takes it run on
  (`HandsOver`): handshakes and bridges may take as long as they like, and
  nothing else is needed, because a full channel is emptied by the loop and a
  runtime that ends takes its queue with it.
- `Provisioner`: a replica's mutex is given to each waiter eventually (strong
  fairness; Go's mutex does not starve).

## Proofs

For all values of the constants, under the named assumptions:

| Module | About | Theorems | From |
|---|---|---|---|
| `TunnelProofs`, with the steps in `TunnelStepProofs` | `Tunnel` | `TypeCorrect`; `PermitsFollowSockets`; `HandshakesReleased`; `PairingInvariant`; `WinnerOnly`; `AcceptedOnce`; `WinnerEligible`; `ClaimantsAnswered`; `TunnelImplementsPairing` | `TunnelAssumption` |
| `IngressProofs` | `RoundRobin` | `RotationIsFair` | `RoundRobinAssumption` |
| | `Relay` | `RelayInvariant`; `DoneIsComplete` | `RelayConstants` |
| `HttpProxyProofs` | `HttpProxy` | `ProxyInvariant`; `ProxyTypeCorrect`; `HeadersAreTrusted`; `LongestPrefixSelected`; `InnermostPrefixSelected`; `PreparedWhenEquipped`; `LimitsKept`; `NothingRelayed`; `SessionsAreEarned`; and the action properties `EachAuthorized`, `BrowserHasRoles` | `ProxyAssumption` |
| | `Routing` | `StripFollowsRouting`; `RedirectSettles` | |
| `ConfigLayersProofs` | `ConfigLayers` | `RouteCoversPaths`; `PoliciesUsable`; `IdsUnique`; and the action properties `PolicyBySwitch`, `EditsIsolated`, `NearestWins`, `EditsLocal` | `ConfigAssumption` |
| `ClientProofs` | `Session` | `SessionTypeCorrect`; `TicketOutlivesSession`; `RuntimeLivesWithHolders`; `HandoverAccepted` | `SessionAssumption`, the second also `PromptSetup` |
| | `Desktop` | `OneSuccessor` | |
| `ControlPlaneProofs` | `CentralConfig` | `CentralInvariant`; `ReportedWasRun`; `CentralTypeCorrect` | `CentralAssumption` |
| | `Enrollment` | `CredentialMatches`; `CredentialOwned` | `EnrollConstants` |
| | `Provisioner` | `CompleteWhenReported`; `ReportedStays` | the second: `ProvisionConstants`, `OneReplica` |
| `StalenessProofs` | `KeyCache` | `KeyInvariant`; `WithdrawnKeyEnds` (an action property); `CacheOutlastsKeys` | `KeyCacheConstants` |
| | `Presence` | `PresenceInvariant`; `RecordIsNewest`; `SilenceShown`; `LeaseCoversLosses` | `PresenceConstants` |

So every safety property of a passing run, and of the further configurations,
is a theorem as well.

**Tunnel.** The safety properties are not inductive by themselves. That only the
winner is accepted depends on a connection being decided once, and so on
claims, requests and tasks existing only for connections whose handler has
come far enough: `MessagesInv` says, for each client and connection, which
messages and tasks may exist in which phase, and `ChoiceInv` that a winner
exists exactly from the decision on and was a claimant with a matching rule.
Each action group has a lemma with a step per action; `TaskMessages`,
`SockMessages` and `PhaseMessages` carry `MessagesInv` over a step of one
task, socket or handler. The permits need no more than the types: each handler
that leaves a live phase drops its socket, and with it the permit; that the
limits hold rests on the cardinality of the set of holders growing by one only
where `try_acquire_owned` succeeds. For the refinement every action is shown to
be a step of `Pairing` under the mapping of phases to statuses, or to leave the
mapped state alone; `PeersValue` determines the mapped set of relayed pairs
from `PairingInv`.

**RoundRobin.** `missed` alone is not inductive: what a claimant has missed and
the turns it still has to wait, counted from the cursor, together stay below
the number of claimants.

**Relay.** `RelayInv` relates what was sent, taken, buffered and given in each
direction, and says that a half-close is passed on only behind every byte;
completeness follows from it.

**HttpProxy.** `ProxyInv` is the type invariant with what each group of phases
has in hand. `SeenInv` says of a request at its backend that its rule is the
best for its path (`BestFor`) and that its view is what `prepare_request` makes
of it (`PreparedOK`); only `HandleForwards` makes it true and nothing touches
it until the answer (`ToBackend`). The lemmas below it are about the string
operations: `Trimmed`, `SplitAtPrefix` and `Stripped` show that what is left of
a path after stripping is a path that gives the old one back behind the prefix.

That the longest prefix is the innermost is not about one prefix at a time.
`MatchIsCover` shows that comparing characters finds exactly the prefixes that
cover a path, and `CoversChain` that of two prefixes which cover one path the
shorter covers the longer, if that ends in at most one slash; so
with `SelectsBest`, that the code picks a longest match, `MostSpecificWins`
follows. `CoveredStrips` and `SlashIrrelevant` give `StripFollowsRouting`: what
matches can be stripped, and the canonical redirect of a rule leads to a path
the rule still matches. `RedirectSettles` adds that no other rule is preferred
there. For the sessions, `OnlyCallback` shows that no other step starts one,
and the callback has just found the roles of its policy.

**ConfigLayers.** `ConfigInv` says that the document is one and that what is
loaded is the document read under the overrides, so each action property is a
statement about loading two documents that differ at one place. `LayersKept`
shows that loading a node looks only at its own layers. `NearestOfThree`
describes what merging up to three layers gives: the value of the nearest one
that says something; `NearestAlike` and `SamePart` compare two merges. For
`RouteCoversPaths`, `RoutePolicy` says which switch a route's policy comes from,
and `CoveredBySwitch` that a path finds the same switch among its layers unless
its own table is nearer; `RulesOf` tells the two forms of a document apart.

**Session.** `Timing` says that from the ticket to the timer what is left of
the ticket and the time already spent exceed the renewal delay and the longest
set-up, and that the ticket outlasts the armed timer; `PromptSetup` makes it
true when the ticket is taken. `HandoverInv` adds to `RuntimeHeld` who may
hold what (`Ownership`): `BecomeHeld` is the lemma about dropping holders.

**CentralConfig.** That a reported revision was run is not inductive, because
reports are made from what the client has applied, from its stream and from
streams it has abandoned: `CentralInv` says of all three that it was run.

**Presence.** `PresenceInv` says that every stamp is that of a real contact up
to the skew, in records and in messages on their way, and that a record is at
least as late as what its replica has heard. That a connected client stays
online is a matter of counting. `BeatsInv` says of each replica, and of each
contact it has heard of or is still to hear of, that the time from there to the
last contact is at most one beat for every later message on its way and every
message that was lost (`Owed`), and that messages on their way are a beat apart
(`Spaced`). The two together leave no room for a gap: the first message on its
way that is newer than what the replica has heard follows it after at most the
losses and one more beat, and it has waited for at most `MaxDelay`. What the
lemmas need about cardinalities is collected in `Counting`, which the theorem
proves from the library's facts on finite sets.

**KeyCache.** That a withdrawn key ends is not inductive: its age in memory or
in the file was copied from an answer that may have been under way when it was
withdrawn. `KeyInv` bounds the time since the withdrawal by the age of the
answer, of the keys in use and of the file, each plus at most one fetch;
`HistoryKept` carries it over every step that only moves keys between them.
`CacheInv` says that a cache file is at least as young as the keys in use and
as those about to be used, whoever wrote it.

**Desktop.** `Succession` counts the replacements a leaving process has started:
at most one for each debounce that has ended, and one for the debounce that is
running, during which every change is dropped.

**Enrollment.** `OneCredential` says that an enrollment carries both parts of
one credential, and that only a device without a name enrolls;
`OwnedBeforeMark` that an account has its owner before the approval goes on.

**Provisioner.** `SeenAssigned` says that whoever goes on has seen the
application with its provider, or has made the provider and seen an application
of the slug. `OneWriter` says that, at one replica, the copy
of the address list in the working request is the list.

Only model-checked: all liveness, which is outside the prover's reach
(`ConnectionSettles`, `ClaimantSettles`, `CallbackSettles`, `Converges`,
`ReportSettles`, `ListensAgain`, `CompleteSet`, `HandoverSettles` and those of
the further configurations); and the assumptions of `RoutingFacts`, which
compare the operations on paths and names with lists of segments and labels:
what sorting the positions of the separators gives needs induction over
sequences. No theorem rests on them.

## Not modelled

- How the ingress buffers the first bytes until they show a hostname: one step
  of `Tunnel` that succeeds or fails.
- The precedence of flags, variables, mounted files and TOML at start
  (`cli.rs`): pure selection among four sources, once per process.
- Service principals: creating one is the sequence of calls that `Enrollment`
  has for a device's account. Two concurrent updates of one principal's
  document are not told apart from two updates in a row.
- The console's login and its bounded list of flows, several browser tabs at
  the client's gateway, and the console's event stream: state that lives in
  the browser.
- The callout's checks of names and tokens, the start-up of the control plane,
  `internal/config`, `internal/identity` and the key generator: comparisons,
  wiring and one-shot parsing without concurrent state.
- The web console and its editor: a user interface over the modelled endpoints.
- Signing, encryption, TLS, HTTP framing, JSON and TOML syntax, ACME and the
  copying loops: libraries; a token or a signature is good or not.
- Plain settings that are copied unchanged, and the parsing of addresses and
  numbers.
- A replacement process that cannot be spawned, and a torn `desktop.json`:
  both stop at an error message and have no recovery.
- Logging, window, icon and autostart code, the demonstration backend: I/O.
