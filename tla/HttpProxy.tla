----------------------------- MODULE HttpProxy -----------------------------
(***************************************************************************)
(* The tunnel client behind a paired connection: protocol detection and    *)
(* dispatch (bridge_connection in client/src/lib.rs, bridge_tls in         *)
(* acme.rs), the request-level proxy (http_proxy.rs) and the authorization *)
(* of each request (Authorizer in authorization.rs), for one hostname, one *)
(* connection at a time and one user agent, whose cookies outlive the      *)
(* connections.                                                            *)
(*                                                                         *)
(* Token signatures and lifetimes are a Boolean (module KeyCache has the   *)
(* keys), and the user agent has one tab, so one flow at a time.  A rule   *)
(* is [prefix, strip, proxy, http, host, policy], http for a rule with an  *)
(* http_backend_addr and host for its backend_host; a policy is [bearer,   *)
(* oidc, reg, required, all, forward, callback, logout, max]; reg is the   *)
(* OIDC registration, that is issuer and client id, which name the two     *)
(* cookies.  A value is "bad" when no header can carry it, and text says   *)
(* that headers can carry the claims of a token or of the user's account.  *)
(***************************************************************************)
EXTENDS Routing

CONSTANTS
    Configs,      \* configurations: [rules, passthrough, acme]
    Paths,        \* paths a user agent asks for
    Tokens,       \* bearer tokens: [valid, roles, named, text]
    Accounts,     \* accounts of the user: [roles, text]
    Role,         \* role names
    Char,         \* the characters of paths
    Registration, \* OIDC registrations
    Sizes,        \* sizes of request headers
    DefaultMax,   \* limit without a policy (32 KiB in the code)
    MaxReturn,    \* the longest path a login returns to (1024 in the code)
    NoPolicy, NoToken, NoRequest, NoReg,
    MaxExpiries   \* bound on expiring sessions

\* Configured prefixes, redirect URIs and request paths begin with a slash.
Path == {p \in Seq(Char) : StartsWith(p, Slash)}

PolicyRecord == [bearer : BOOLEAN, oidc : BOOLEAN, reg : Registration, required : SUBSET Role,
                 all : BOOLEAN, forward : BOOLEAN, callback : Path, logout : Path, max : Nat]
RuleRecord == [prefix : Path \cup {<<>>}, strip : BOOLEAN, proxy : BOOLEAN,
               http : BOOLEAN, host : {"none", "good", "bad"},
               policy : PolicyRecord \cup {NoPolicy}]
ConfigRecord == [rules : Seq(RuleRecord), passthrough : BOOLEAN, acme : BOOLEAN]
RequestRecord == [path : Path, token : Tokens \cup {NoToken}, own : BOOLEAN, host : BOOLEAN,
                  upgrade : BOOLEAN, size : Sizes, state : Registration \cup {NoReg}]
SeenRecord == [rule : Nat, path : Path, identity : {"none", "account", "token", "caller"},
               forwarded : {"none", "tunnel", "caller"}, token : BOOLEAN]

ASSUME ProxyAssumption ==
    /\ Configs \subseteq ConfigRecord
    /\ Slash \in Char /\ Paths \subseteq Path
    /\ Sizes \subseteq Nat /\ Sizes # {} /\ DefaultMax \in Nat
    /\ NoRequest \notin RequestRecord /\ NoRequest \notin SeenRecord

VARIABLES
    conf,      \* the configuration
    account,   \* the user's account
    phase,     \* where the connection is
    bytes,     \* what its peer sends first
    req,       \* the request being handled
    jar,       \* the browser's flow and session cookies
    want,      \* the page the user asked for, <<>> for none
    next,      \* the path the browser is to request, <<>> for none
    trip,      \* the rule for which the browser shows a login page, or 0
    seen,      \* what the backend gets to see of req
    answer,    \* the last answer
    expiries

proxyVars == <<conf, account, phase, bytes, req, jar, want, next, trip, seen, answer, expiries>>

roles == account.roles
Rules == conf.rules
Policies == {i \in DOMAIN Rules : Rules[i].policy # NoPolicy}
Regs == {Rules[i].policy.reg : i \in Policies}
NoCookies == [flow |-> <<>>, session |-> FALSE]

Reserved(policy) == {policy.callback, policy.logout}

StartableUnchecked(c) == \A i \in DOMAIN c.rules : c.rules[i].policy # NoPolicy => c.acme

\* The checks of process_messages before a session listens: a policy needs
\* the ACME hostname, and different OIDC policies have different endpoints.
Startable(c) ==
    LET policies == {c.rules[i].policy : i \in DOMAIN c.rules} \ {NoPolicy}
    IN  /\ policies # {} => c.acme
        /\ \A p, q \in {r \in policies : r.oidc} : p # q => Reserved(p) \cap Reserved(q) = {}

ProxyInit ==
    /\ conf \in {c \in Configs : Startable(c)}
    /\ account \in Accounts
    /\ phase = "closed" /\ bytes = "none"
    /\ req = NoRequest /\ seen = NoRequest /\ answer = "none"
    /\ jar = [g \in Regs |-> NoCookies]
    /\ want = <<>> /\ next = <<>> /\ trip = 0
    /\ expiries = 0
-----------------------------------------------------------------------------
(***************************************************************************)
(* Connections.  "raw" stands also for a peer that stays silent for the    *)
(* two seconds of the peek; "tls" for TLS that fails to be accepted, or    *)
(* carries no HTTP.                                                        *)
(***************************************************************************)
Special(i) ==
    Rules[i].prefix # <<>> \/ Rules[i].proxy \/ Rules[i].host # "none" \/ Rules[i].policy # NoPolicy

InspectTls == ~conf.passthrough \/ \E i \in DOMAIN Rules : Special(i)
InspectHttp == conf.acme \/ InspectTls \/ \E i \in DOMAIN Rules : Rules[i].http

\* connection_is_plaintext_http
PlaintextHttp == InspectHttp /\ bytes = "http"

ProtocolAllowed(http) == http \/ conf.passthrough

Open ==
    /\ phase = "closed"
    /\ phase' = "fresh"
    /\ bytes' \in IF next = <<>> THEN {"http", "https", "tls", "raw"} ELSE {"http", "https"}
    /\ UNCHANGED <<conf, account, req, jar, want, next, trip, seen, answer, expiries>>

Become(where) ==
    /\ phase' = where
    /\ bytes' = IF where = "terminated" THEN bytes ELSE "none"
    /\ UNCHANGED <<conf, account, req, jar, want, next, trip, seen, answer, expiries>>

BridgeServes   == phase = "fresh" /\ PlaintextHttp /\ Become("serving")
BridgeHandsOn  == phase = "fresh" /\ ~PlaintextHttp /\ conf.acme /\ Become("terminated")
BridgeRelays   == phase = "fresh" /\ ~PlaintextHttp /\ ~conf.acme /\ ProtocolAllowed(FALSE) /\ Become("relay")
BridgeRejects  == phase = "fresh" /\ ~PlaintextHttp /\ ~conf.acme /\ ~ProtocolAllowed(FALSE) /\ Become("closed")

TlsHttp == InspectTls /\ bytes = "https"

AcceptFails == phase = "terminated" /\ bytes # "https" /\ Become("closed")
TlsServes   == phase = "terminated" /\ bytes \in {"https", "tls"} /\ TlsHttp /\ Become("serving")
TlsRelaysUnchecked == phase = "terminated" /\ bytes \in {"https", "tls"} /\ ~TlsHttp /\ Become("relay")
TlsRelays   == phase = "terminated" /\ bytes \in {"https", "tls"} /\ ~TlsHttp /\ ProtocolAllowed(FALSE) /\ Become("relay")
TlsRejects  == phase = "terminated" /\ bytes \in {"https", "tls"} /\ ~TlsHttp /\ ~ProtocolAllowed(FALSE) /\ Become("closed")

Ends ==
    /\ phase \in {"relay", "upgraded"} \/ (phase = "serving" /\ next = <<>>)
    /\ phase' = "closed"
    /\ req' = NoRequest /\ seen' = NoRequest
    /\ UNCHANGED <<conf, account, bytes, jar, want, next, trip, answer, expiries>>
-----------------------------------------------------------------------------
(***************************************************************************)
(* Requests.  A browser sends its cookies and follows redirects; other     *)
(* callers send a token.  own: the request brings identity and forwarding  *)
(* headers of its own.                                                     *)
(***************************************************************************)
RequestLimitLoose == Max({DefaultMax} \cup {Rules[i].policy.max : i \in Policies})

\* request_limits: fixed for the connection, before any path is known.
RequestLimit == Min({DefaultMax} \cup {Rules[i].policy.max : i \in Policies})

Receive(r) ==
    /\ phase = "serving"
    /\ seen' = NoRequest
    /\ IF r.size > RequestLimit
       THEN phase' = "closed" /\ req' = NoRequest /\ answer' = "431"
       ELSE phase' = "deciding" /\ req' = r /\ answer' = "none"

Call ==
    /\ next = <<>>
    /\ \E p \in Paths, t \in Tokens, o \in BOOLEAN, h \in BOOLEAN, s \in Sizes :
          Receive([path |-> p, token |-> t, own |-> o, host |-> h, upgrade |-> FALSE,
                   size |-> s, state |-> NoReg])
    /\ UNCHANGED <<conf, account, bytes, jar, want, next, trip, expiries>>

Visit(p) ==
    /\ want = <<>> /\ next = <<>> /\ trip = 0
    /\ phase \in {"closed", "serving"}
    /\ want' = p /\ next' = p
    /\ answer' = "none"
    /\ UNCHANGED <<conf, account, phase, bytes, req, jar, trip, seen, expiries>>

Follow ==
    /\ next # <<>>
    /\ \E u \in BOOLEAN, o \in BOOLEAN :
          Receive([path |-> next, token |-> NoToken, own |-> o, host |-> TRUE, upgrade |-> u,
                   size |-> Min(Sizes), state |-> IF trip = 0 THEN NoReg ELSE Rules[trip].policy.reg])
    /\ next' = <<>> /\ trip' = 0
    /\ UNCHANGED <<conf, account, bytes, jar, want, expiries>>

\* The user signs in; the provider returns to the login's redirect URI.
ProviderReturns ==
    /\ trip # 0 /\ next = <<>>
    /\ next' = Rules[trip].policy.callback
    /\ UNCHANGED <<conf, account, phase, bytes, req, jar, want, trip, seen, answer, expiries>>

SessionExpires(g) ==
    /\ expiries < MaxExpiries
    /\ jar[g].session
    /\ jar' = [jar EXCEPT ![g].session = FALSE]
    /\ expiries' = expiries + 1
    /\ UNCHANGED <<conf, account, phase, bytes, req, want, next, trip, seen, answer>>
-----------------------------------------------------------------------------
(***************************************************************************)
(* handle_request.                                                         *)
(***************************************************************************)
\* validate_roles
RolesOK(policy, held) ==
    \/ policy.required = {}
    \/ IF policy.all THEN policy.required \subseteq held ELSE policy.required \cap held # {}

HandlesEndpoint(policy) ==
    policy.oidc /\ req.path \in Reserved(policy)

Endpoints == {i \in Policies : HandlesEndpoint(Rules[i].policy)}

\* authorize, past the endpoints.
AuthorizeTokenOnly(policy) == IF req.token.valid THEN "allow" ELSE "401"
AuthorizeToken(policy) ==
    IF ~policy.bearer THEN "401"
    ELSE IF ~req.token.valid THEN "401"
    ELSE IF RolesOK(policy, req.token.roles) THEN "allow" ELSE "403"

AuthorizeBrowser(policy) ==
    IF ~policy.oidc THEN "401" ELSE IF jar[policy.reg].session THEN "allow" ELSE "login"

Authorize(policy) ==
    IF policy = NoPolicy THEN "allow"
    ELSE IF req.token # NoToken THEN AuthorizeToken(policy) ELSE AuthorizeBrowser(policy)

\* identity_from_claims may fail for an accepted token.
Identity(policy) ==
    IF policy = NoPolicy THEN "none"
    ELSE IF req.token = NoToken THEN "account"
    ELSE IF req.token.named THEN "token" ELSE "none"

SelectedFirst == LET m == {i \in DOMAIN Rules : MatchesPathPrefix(Rules[i].prefix, req.path)}
                 IN  IF m = {} THEN SelectForPath(Rules, req.path) ELSE Min(m)
Selected == SelectForPath(Rules, req.path)

Respond(what, where) ==
    /\ answer' = what
    /\ phase' = "serving"
    /\ req' = NoRequest
    /\ next' = IF req.token = NoToken THEN where ELSE <<>>
    /\ want' = IF req.token = NoToken /\ where = <<>> /\ what # "login" THEN <<>> ELSE want
    /\ UNCHANGED <<conf, account, bytes, seen, expiries>>

\* callback: the flow cookie of this policy's registration, with this state.
FlowFound(policy) == jar[policy.reg].flow # <<>> /\ req.state = policy.reg

\* It may still be too old, the code may not be exchanged or the ID token
\* not be accepted: "unverified", which the user agent sees as 401 too.  A
\* caller may use a method that is not allowed.
HandleCallback ==
    LET policy == Rules[Min(Endpoints)].policy
    IN  /\ phase = "deciding" /\ Endpoints # {}
        /\ req.path = policy.callback
        /\ \/ /\ FlowFound(policy) /\ RolesOK(policy, roles)
              /\ jar' = [jar EXCEPT ![policy.reg] = [flow |-> <<>>, session |-> TRUE]]
              /\ Respond("303", jar[policy.reg].flow)
           \/ FlowFound(policy) /\ jar' = jar /\ Respond("unverified", <<>>)
           \/ ~(FlowFound(policy) /\ RolesOK(policy, roles)) /\ jar' = jar /\ Respond("401", <<>>)
           \/ req.token # NoToken /\ jar' = jar /\ Respond("405", <<>>)
        /\ trip' = trip

HandleLogout ==
    LET policy == Rules[Min(Endpoints)].policy
    IN  /\ phase = "deciding" /\ Endpoints # {}
        /\ req.path = policy.logout
        /\ \/ /\ jar' = IF req.token = NoToken THEN [jar EXCEPT ![policy.reg] = NoCookies] ELSE jar
              /\ Respond("303", Root)
           \/ req.token # NoToken /\ jar' = jar /\ Respond("405", <<>>)
        /\ trip' = trip

HandleDenied ==
    /\ phase = "deciding" /\ Endpoints = {} /\ Selected # 0
    /\ Authorize(Rules[Selected].policy) \in {"401", "403"}
    /\ Respond(Authorize(Rules[Selected].policy), <<>>)
    /\ UNCHANGED <<jar, trip>>

\* safe_return_to
SafeReturnTo(path) ==
    IF HasPrefix(path, <<Slash, Slash>>) \/ Len(path) > MaxReturn THEN Root ELSE path

\* login: a flow that will return to this path, unless it cannot be begun.
HandleLogin ==
    LET policy == Rules[Selected].policy
    IN  /\ phase = "deciding" /\ Endpoints = {} /\ Selected # 0
        /\ Authorize(policy) = "login"
        /\ \/ /\ jar' = [jar EXCEPT ![policy.reg].flow = SafeReturnTo(req.path)]
              /\ trip' = Selected
              /\ Respond("login", <<>>)
           \/ UNCHANGED <<jar, trip>> /\ Respond("500", <<>>)

Allowed == phase = "deciding" /\ Endpoints = {} /\ Selected # 0 /\ Authorize(Rules[Selected].policy) = "allow"

HandleRedirect ==
    /\ Allowed
    /\ RedirectsPrefix(Rules[Selected], req.path)
    /\ Respond("308", RedirectTarget(Rules[Selected]))
    /\ UNCHANGED <<jar, trip>>

\* set_header: a header can carry the identity, if there is one.
Presentable(policy) ==
    CASE Identity(policy) = "account" -> account.text
      [] Identity(policy) = "token"   -> req.token.text
      [] OTHER                        -> TRUE

\* The prefix to be taken off is missing, there is no Host header, or a header
\* of the identity, the path or backend_host cannot be set.
Unpreparable ==
    LET rule == Rules[Selected]
    IN  \/ rule.strip /\ rule.prefix = <<>>
        \/ ~req.host
        \/ ~Presentable(rule.policy)
        \/ rule.strip /\ ~Strippable(rule.prefix, req.path)
        \/ rule.host = "bad"

HandleFails ==
    /\ \/ phase = "deciding" /\ Endpoints = {} /\ Selected = 0
       \/ Allowed /\ ~RedirectsPrefix(Rules[Selected], req.path) /\ Unpreparable
    /\ Respond("502", <<>>)
    /\ UNCHANGED <<jar, trip>>

\* prepare_request: what the backend will see.
PreparedKeeping == [rule |-> Selected, path |-> req.path,
                    identity |-> IF req.own THEN "caller" ELSE Identity(Rules[Selected].policy),
                    forwarded |-> IF Rules[Selected].proxy THEN "tunnel" ELSE IF req.own THEN "caller" ELSE "none",
                    token |-> FALSE]
Prepared ==
    LET rule == Rules[Selected]
    IN  [rule      |-> Selected,
         path      |-> IF rule.strip THEN StripPrefix(rule.prefix, req.path) ELSE req.path,
         identity  |-> Identity(rule.policy),
         forwarded |-> IF rule.proxy THEN "tunnel" ELSE IF req.own THEN "caller" ELSE "none",
         token     |-> req.token # NoToken /\ (rule.policy # NoPolicy => rule.policy.forward)]

HandleForwardsUnprepared ==
    /\ Allowed
    /\ phase' = "connecting"
    /\ UNCHANGED <<conf, account, bytes, req, jar, want, next, trip, seen, answer, expiries>>

HandleForwards ==
    /\ Allowed
    /\ ~RedirectsPrefix(Rules[Selected], req.path)
    /\ ~Unpreparable
    /\ seen' = Prepared
    /\ phase' = "connecting"
    /\ UNCHANGED <<conf, account, bytes, req, jar, want, next, trip, answer, expiries>>
-----------------------------------------------------------------------------
(***************************************************************************)
(* forward_request.                                                        *)
(***************************************************************************)
BackendConnects == phase = "connecting" /\ Become("sent")

Conclude(what) ==
    /\ Respond(what, <<>>)
    /\ UNCHANGED <<jar, trip>>

BackendUnavailable == phase \in {"connecting", "sent"} /\ Conclude("502")
BackendTimesOut == phase = "connecting" /\ Conclude("504")
BackendAnswers == phase = "sent" /\ Conclude("page")

BackendSwitches ==
    /\ phase = "sent" /\ req.upgrade
    /\ phase' = "upgraded" /\ answer' = "page" /\ want' = <<>>
    /\ UNCHANGED <<conf, account, bytes, req, jar, next, trip, seen, expiries>>
-----------------------------------------------------------------------------
Connection ==
    \/ Open \/ BridgeServes \/ BridgeHandsOn \/ BridgeRelays \/ BridgeRejects
    \/ AcceptFails \/ TlsServes \/ TlsRelays \/ TlsRejects

Handle ==
    \/ HandleCallback \/ HandleLogout \/ HandleDenied \/ HandleLogin
    \/ HandleRedirect \/ HandleFails \/ HandleForwards

Backend ==
    \/ BackendConnects \/ BackendUnavailable \/ BackendTimesOut
    \/ BackendAnswers \/ BackendSwitches

ProxyNext ==
    \/ Connection \/ Handle \/ Backend \/ Ends
    \/ Call \/ Follow \/ ProviderReturns
    \/ \E p \in Paths : Visit(p)
    \/ \E g \in Regs : SessionExpires(g)

ProxySpec == ProxyInit /\ [][ProxyNext]_proxyVars

\* Connections are opened when needed and dispatched, requests are handled,
\* a backend answers or the ten seconds run out, relays end, and the user
\* completes the login that is on the screen.
ProxyFairness ==
    /\ WF_proxyVars(Connection) /\ WF_proxyVars(Handle) /\ WF_proxyVars(Backend)
    /\ WF_proxyVars(Follow) /\ WF_proxyVars(ProviderReturns)
    /\ WF_proxyVars(phase \in {"relay", "upgraded"} /\ Ends)

ProxyFairSpec == ProxySpec /\ ProxyFairness
-----------------------------------------------------------------------------
(***************************************************************************)
(* Properties.                                                             *)
(***************************************************************************)
Answers == {"none", "401", "403", "405", "431", "500", "502", "504", "303", "308",
            "unverified", "login", "page"}

\* The type invariant.
ProxyTypeOK ==
    /\ phase \in {"closed", "fresh", "terminated", "serving", "deciding", "connecting",
                  "sent", "relay", "upgraded"}
    /\ jar \in [Regs -> [flow : Path \cup {<<>>}, session : BOOLEAN]]
    /\ want \in Path \cup {<<>>} /\ next \in Path \cup {<<>>}
    /\ trip \in Policies \cup {0}
    /\ answer \in Answers
    /\ req \in RequestRecord \cup {NoRequest}
    /\ seen \in SeenRecord \cup {NoRequest}
    /\ (phase \in {"deciding", "connecting", "sent"}) => req # NoRequest
    /\ (phase \in {"connecting", "sent"}) => seen # NoRequest

AtBackend == phase \in {"connecting", "sent"}

\* Requests of one keep-alive connection are authorized independently: what
\* reaches a protected backend was accepted by that backend's own policy, a
\* token with its roles, and never on the strength of an earlier request.
AuthorizedIndependently ==
    [][ phase # "connecting" /\ phase' = "connecting" /\ Rules[seen'.rule].policy # NoPolicy =>
        LET policy == Rules[seen'.rule].policy
        IN  IF req.token = NoToken THEN policy.oidc /\ jar[policy.reg].session
            ELSE /\ policy.bearer /\ req.token.valid
                 /\ policy.required # {} => policy.required \cap req.token.roles # {}
                 /\ policy.all => policy.required \subseteq req.token.roles ]_proxyVars

\* Whatever came before on the connection, a request reaches the backend of
\* the innermost of the prefixes that cover its path by whole segments, the
\* fallback only when none does (select_runtime_for_path,
\* matches_path_prefix).  The longest prefix is the innermost unless it ends
\* in several slashes, which count towards its length.
MostSpecificWins ==
    AtBackend =>
        LET covering == {i \in DOMAIN Rules :
                            Rules[i].prefix # <<>> /\ Covers(Rules[i].prefix, req.path)}
            chosen == Rules[seen.rule].prefix
        IN  IF covering = {} THEN chosen = <<>>
            ELSE /\ seen.rule \in covering
                 /\ \A i \in covering : Covers(Rules[i].prefix, chosen) \/ Doubled(chosen)

\* Identity headers a backend sees come from the gateway, forwarding headers
\* too where proxy_headers is on; a bearer token stays out unless asked for
\* (prepare_request).  A stripped path is what follows the prefix.
HeadersTrusted ==
    AtBackend =>
        LET rule == Rules[seen.rule]
        IN  /\ seen.identity # "caller"
            /\ seen.identity # "none" => rule.policy # NoPolicy
            /\ rule.proxy => seen.forwarded = "tunnel"
            /\ seen.token => rule.policy = NoPolicy \/ rule.policy.forward
            /\ StartsWith(seen.path, Slash)
            /\ IF rule.strip THEN TrimEnd(rule.prefix, Slash) \o seen.path \in {req.path, req.path \o Root}
               ELSE seen.path = req.path

\* A request that reaches a backend is within the header limit of the policy
\* that protects it, although the limit is chosen before the path is known.
WithinLimits ==
    AtBackend /\ Rules[seen.rule].policy # NoPolicy => req.size <= Rules[seen.rule].policy.max

\* With tcp_passthrough off nothing is relayed as a byte stream, before or
\* after TLS termination (protocol_allowed).
HttpOnly == ~conf.passthrough => phase # "relay"

\* A user who asks for a page and whose account has the roles gets it, or is
\* told that the backend, the gateway or the provider failed: login, callback
\* and canonical redirects do not go round in circles.
SignInReachesBackend ==
    /\ want # <<>>
    /\ \A i \in Policies : LET policy == Rules[i].policy
                          IN  policy.oidc /\ RolesOK(policy, roles) /\ want # policy.callback
    ~> want = <<>> /\ answer \in {"page", "500", "502", "504", "unverified"}

=============================================================================
