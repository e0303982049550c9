---------------------------- MODULE ConfigLayers ----------------------------
(***************************************************************************)
(* How a client configuration document becomes the route configurations a  *)
(* client runs (shared/src/config.rs), and how command-line and            *)
(* environment overrides are laid over them (ClientCli::load in            *)
(* shared/src/cli.rs).                                                     *)
(*                                                                         *)
(* A document is edited one setting at a time and loaded after every edit. *)
(* A place of the document is <<route, path, section>>: route 0 is the     *)
(* [defaults] table, path 0 the route itself.  In the legacy shape, which  *)
(* has the first route only, the paths are its backend_rules, with or      *)
(* without a path_prefix; in the multi-route shape the route itself has    *)
(* the fallback backend, rule 0.  An optional table is a                   *)
(* sequence of at most one partial function from settings to values, so    *)
(* flattening a list of optional tables is concatenation.  Values are      *)
(* strings; what the code tells apart is whether a text or list is blank,  *)
(* and which of the values that validation names it is.  Hostnames, which  *)
(* no layer shares, and host patterns are left out.                        *)
(***************************************************************************)
EXTENDS Naturals, Sequences, FiniteSetsExt, Functions, TLC

CONSTANTS
    Paths,      \* Paths[r]: the number of path routes of route r
    Offers,    \* Offers[k][f]: the values f may be given in a table of kind k
    Documents,  \* the documents a behaviour may start from
    Overrides,  \* the sets of CLI/environment overrides a client is given
    MaxEdits    \* bound on the edits of a behaviour

Unset == "unset"
Blank == "blank"

Route == DOMAIN Paths
Nodes == {<<0, 0>>} \cup UNION {{<<r, p>> : p \in 0..Paths[r]} : r \in Route}
Sections(n) == IF n[2] = 0 THEN {"plain", "oauth", "acme", "authorization"}
                           ELSE {"plain", "authorization"}
Place == UNION {{<<n[1], n[2], s>> : s \in Sections(n)} : n \in Nodes}

(* A document has a table, or none, at every place; the legacy shape has   *)
(* one route, the first.                                                   *)
DocumentOK(d) ==
    /\ d = [shape |-> d.shape, tables |-> [pl \in Place |-> d.tables[pl]]]
    /\ d.shape \in {"legacy", "multi"}
    /\ \A pl \in Place : d.tables[pl] = <<>> \/ d.tables[pl] = <<d.tables[pl][1]>>

ASSUME ConfigAssumption ==
    /\ Paths \in Seq(Nat) /\ Paths # <<>>
    /\ \A d \in Documents : DocumentOK(d)

VARIABLES
    doc,    \* the document: its shape and its tables by place
    over,   \* the overrides the client was started with
    loaded, \* what loading it gives: one configuration per route, or <<>>
    edits   \* the number of edits made

configVars == <<doc, over, loaded, edits>>

(* Settings whose blank value counts as absent in the multi-route shape.   *)
NonBlank == {"issuer", "audiences", "jwks_cache_file", "roles_claim",
             "algorithms", "oidc_client_id", "oidc_scopes",
             "oidc_callback_path", "oidc_logout_path",
             "oidc_session_key_file"}

AuthFields == NonBlank \cup
    {"bearer", "oidc", "jwks_uri", "required_roles", "forward_authorization",
     "role_match", "leeway_seconds", "jwks_refresh_seconds",
     "jwks_max_stale_seconds", "header_timeout_ms", "max_header_bytes",
     "oidc_client_secret_file", "oidc_session_ttl_seconds"}
OAuthFields == {"token_url", "provider_client_id", "username",
                "client_secret_file", "control_plane_url", "scopes",
                "renew_before_seconds"}
AcmeFields == {"contacts", "cache_dir", "production", "directory_url"}
RouteFields == {"client_id", "nats_url", "nats_token_file",
                "tcp_passthrough", "relay_mode", "request_subject",
                "claim_ack_timeout_ms"}
RuleFields == {"path_prefix", "strip_path_prefix", "proxy_headers",
               "backend_addr", "backend_host", "http_backend_addr"}

(* The value a setting has when no layer gives it one.                     *)
Default(f) ==
    CASE f \in {"bearer", "oidc", "jwks_uri", "oidc_client_id", "issuer",
                "oidc_client_secret_file", "directory_url", "client_id",
                "nats_url", "nats_token_file", "path_prefix", "backend_addr",
                "backend_host", "http_backend_addr", "token_url",
                "provider_client_id", "username", "client_secret_file",
                "control_plane_url"} -> Unset
      [] f \in {"audiences", "required_roles", "contacts"} -> Blank
      [] f = "oidc_scopes" -> "openid"
      [] f = "oidc_callback_path" -> "/_lfp/auth/callback"
      [] f = "oidc_logout_path" -> "/_lfp/auth/logout"
      [] OTHER -> "default"

Required(shape) == {"issuer", "client_id", "nats_url", "backend_addr",
                    "token_url", "provider_client_id", "username",
                    "client_secret_file", "control_plane_url"}
    \cup IF shape = "legacy" THEN {"audiences"} ELSE {}

(* The first layer that gives f a value the merge accepts.                 *)
Gives(shape, layer, f) ==
    /\ f \in DOMAIN layer
    /\ shape = "multi" /\ f \in NonBlank => layer[f] # Blank
Resolve(shape, layers, f) ==
    LET hits == {i \in DOMAIN layers : Gives(shape, layers[i], f)}
    IN IF hits # {} THEN layers[Min(hits)][f]
       ELSE IF f \in Required(shape) THEN Unset ELSE Default(f)

(* A rule of the legacy shape that has a path_prefix and no policy of its  *)
(* own is given the client's whole policy when the document is parsed.     *)
Inherits(d, r, p) ==
    /\ d.tables[<<r, p, "authorization">>] = <<>>
    /\ Resolve(d.shape, d.tables[<<r, p, "plain">>], "path_prefix") # Unset

LayersNearestParent(d, r, p, s) ==
    LET own == d.tables[<<r, p, s>>]
        parent == IF p = 0 THEN <<>> ELSE d.tables[<<r, 0, s>>]
    IN IF d.shape = "legacy"
       THEN IF s = "authorization" /\ Inherits(d, r, p) THEN parent ELSE own
       ELSE own \o IF parent # <<>> THEN parent ELSE d.tables[<<0, 0, s>>]

LayersOfFirstRoute(d, r, p, s) ==
    LET own == d.tables[<<r, p, s>>]
        parent == IF p = 0 THEN <<>> ELSE d.tables[<<1, 0, s>>]
    IN IF d.shape = "legacy"
       THEN IF s = "authorization" /\ Inherits(d, r, p) THEN parent ELSE own
       ELSE own \o parent \o d.tables[<<0, 0, s>>] \o d.tables[<<1, 0, s>>]

LayersSkipRoute(d, r, p, s) ==
    LET own == d.tables[<<r, p, s>>]
        parent == IF p = 0 THEN <<>> ELSE d.tables[<<r, 0, s>>]
    IN IF d.shape = "legacy"
       THEN IF s = "authorization" /\ Inherits(d, r, p) THEN parent ELSE own
       ELSE own \o d.tables[<<0, 0, s>>]

(* The tables that section s of path p of route r is resolved from, the    *)
(* nearest first.                                                          *)
Layers(d, r, p, s) ==
    LET own == d.tables[<<r, p, s>>]
        parent == IF p = 0 THEN <<>> ELSE d.tables[<<r, 0, s>>]
    IN IF d.shape = "legacy"
       THEN IF s = "authorization" /\ Inherits(d, r, p) THEN parent ELSE own
       ELSE own \o parent \o d.tables[<<0, 0, s>>]

EnabledAll(shape, layers) ==
    /\ layers # <<>>
    /\ shape = "multi" => \A i \in DOMAIN layers :
           "enabled" \in DOMAIN layers[i] => layers[i]["enabled"] = "on"

(* A table without a layer, or switched off by the nearest layer that says *)
(* so, is left out; the legacy shape has no such switch.                   *)
Enabled(shape, layers) ==
    /\ layers # <<>>
    /\ shape = "multi" =>
           LET says == {i \in DOMAIN layers : "enabled" \in DOMAIN layers[i]}
           IN says = {} \/ layers[Min(says)]["enabled"] = "on"

Merged(shape, layers, fields) ==
    [f \in fields |-> Resolve(shape, layers, f)]

MergeOAuth(d, r) ==
    LET layers == Layers(d, r, 0, "oauth")
    IN IF layers = <<>> THEN <<>>
       ELSE <<Merged(d.shape, layers, OAuthFields)>>
MergeAcme(d, r) ==
    LET layers == Layers(d, r, 0, "acme")
    IN IF ~Enabled(d.shape, layers) THEN <<>>
       ELSE <<Merged(d.shape, layers, AcmeFields)>>
MergeAuthorizationComplete(d, r, p) ==
    LET layers == Layers(d, r, p, "authorization")
    IN IF \/ ~Enabled(d.shape, layers)
          \/ Resolve(d.shape, layers, "issuer") = Unset THEN <<>>
       ELSE <<Merged(d.shape, layers, AuthFields)>>

MergeAuthorization(d, r, p) ==
    LET layers == Layers(d, r, p, "authorization")
    IN IF ~Enabled(d.shape, layers) THEN <<>>
       ELSE <<Merged(d.shape, layers, AuthFields)>>

(* The rule of path p, or of the route's fallback backend when p is 0,     *)
(* which has neither a prefix nor a policy of its own.  A path of the      *)
(* multi-route shape takes only proxy_headers from its route, and has no   *)
(* http_backend_addr.                                                      *)
RuleLayers(d, r, p, f) ==
    IF p = 0 THEN IF f \in {"path_prefix", "strip_path_prefix"} THEN <<>>
                  ELSE Layers(d, r, p, "plain")
    ELSE IF f = "proxy_headers" THEN Layers(d, r, p, "plain")
    ELSE IF f = "http_backend_addr" /\ d.shape = "multi" THEN <<>>
    ELSE d.tables[<<r, p, "plain">>]
Rule(d, r, p) ==
    [settings |-> [f \in RuleFields |-> Resolve(d.shape, RuleLayers(d, r, p, f), f)],
     authorization |-> IF p = 0 THEN <<>> ELSE MergeAuthorization(d, r, p)]
RuleIds(shape, r) == IF shape = "legacy" THEN 1..Paths[r] ELSE 0..Paths[r]

ExpandClientRoute(d, r) ==
    [settings |-> Merged(d.shape, Layers(d, r, 0, "plain"), RouteFields),
     oauth |-> MergeOAuth(d, r), acme |-> MergeAcme(d, r),
     authorization |-> MergeAuthorization(d, r, 0),
     rules |-> [p \in RuleIds(d.shape, r) |-> Rule(d, r, p)]]

(* The policies of a configuration, and every table a value was resolved   *)
(* into.                                                                   *)
Policies(c) == Range(c.authorization)
                   \cup UNION {Range(c.rules[p].authorization) : p \in DOMAIN c.rules}
Tables(c) == {c.settings} \cup Range(c.oauth) \cup Range(c.acme) \cup Policies(c)
                 \cup {c.rules[p].settings : p \in DOMAIN c.rules}
(* What deserialisation or expansion misses: a path of the multi-route     *)
(* shape must also give its prefix, a legacy rule need not.                *)
Complete(shape, c) ==
    /\ \A t \in Tables(c) : \A f \in DOMAIN t \cap Required(shape) : t[f] # Unset
    /\ shape = "multi" =>
           \A p \in DOMAIN c.rules \ {0} : c.rules[p].settings.path_prefix # Unset

BearerEnabled(a) == a.bearer # "off"
OidcEnabled(a) == IF a.oidc # Unset THEN a.oidc = "on"
                  ELSE a.oidc_client_id \notin {Unset, Blank}
ReservedPath(path) == path \in {"/_lfp/auth/callback", "/_lfp/auth/logout"}

ValidAuthorization(a) ==
    /\ BearerEnabled(a) \/ OidcEnabled(a)
    /\ a.issuer # Blank
    /\ BearerEnabled(a) =>
           Blank \notin {a.audiences, a.jwks_cache_file, a.algorithms}
    /\ OidcEnabled(a) =>
           /\ a.oidc_client_id \notin {Unset, Blank}
           /\ a.oidc_scopes = "openid"
           /\ ReservedPath(a.oidc_callback_path)
           /\ ReservedPath(a.oidc_logout_path)
           /\ a.oidc_callback_path # a.oidc_logout_path
           /\ a.oidc_session_key_file # Blank
           /\ a.oidc_session_ttl_seconds # "low"
    /\ "low" \notin {a.header_timeout_ms, a.max_header_bytes}

ValidClientConfigRoute(c) ==
    LET prefix(p) == c.rules[p].settings.path_prefix
        paths == {p \in DOMAIN c.rules : prefix(p) # Unset}
    IN /\ paths # {} \/ Policies(c) # {} => c.acme # <<>>
       /\ paths # {} => Cardinality(DOMAIN c.rules \ paths) = 1
       /\ \A p \in paths : prefix(p) # "relative"
       /\ \A p, q \in paths : prefix(p) = prefix(q) => p = q
       /\ \A a \in Range(c.authorization) : ValidAuthorization(a)

ValidClientConfig(c) ==
    LET prefix(p) == c.rules[p].settings.path_prefix
        paths == {p \in DOMAIN c.rules : prefix(p) # Unset}
    IN /\ paths # {} \/ Policies(c) # {} => c.acme # <<>>
       /\ paths # {} => Cardinality(DOMAIN c.rules \ paths) = 1
       /\ \A p \in paths : prefix(p) # "relative"
       /\ \A p, q \in paths : prefix(p) = prefix(q) => p = q
       /\ \A a \in Policies(c) : ValidAuthorization(a)

(* What expansion itself refuses in the multi-route shape: blank or        *)
(* repeated client ids and a blank certificate directory.                  *)
Expandable(configs) ==
    /\ \A r \in DOMAIN configs :
           /\ configs[r].settings.client_id # Blank
           /\ \A a \in Range(configs[r].acme) : a.cache_dir # Blank
    /\ \A r, q \in DOMAIN configs :
           configs[r].settings.client_id = configs[q].settings.client_id => r = q

ParseClientConfigs(d) ==
    LET configs == [r \in IF d.shape = "legacy" THEN 1..1 ELSE Route |->
                        ExpandClientRoute(d, r)]
    IN IF /\ \A r \in DOMAIN configs : Complete(d.shape, configs[r])
          /\ d.shape = "multi" => Expandable(configs)
          /\ \A r \in DOMAIN configs : ValidClientConfig(configs[r])
       THEN configs ELSE <<>>

(* An empty override of the token file clears it.                          *)
WithOverrides(c, o) ==
    [c EXCEPT !.settings = [f \in RouteFields |->
        IF f \notin DOMAIN o THEN @[f]
        ELSE IF f = "nats_token_file" /\ o[f] = Blank THEN Unset ELSE o[f]]]

LoadOverridesAny(d, o) ==
    LET configs == ParseClientConfigs(d)
    IN [r \in DOMAIN configs |-> WithOverrides(configs[r], o)]

Load(d, o) ==
    LET configs == ParseClientConfigs(d)
    IN IF Len(configs) # 1 /\ "client_id" \in DOMAIN o THEN <<>>
       ELSE [r \in DOMAIN configs |-> WithOverrides(configs[r], o)]

(* The policy a session enforces at a backend: the rule's own, and without *)
(* a prefix otherwise the client's (process_messages).                     *)
BackendPolicy(c, p) ==
    LET rule == c.rules[p]
    IN IF rule.authorization = <<>> /\ rule.settings.path_prefix = Unset
       THEN c.authorization ELSE rule.authorization

(***************************************************************************)
(* Edits.  Each gives one table of the document a new content; the         *)
(* document is loaded after it.                                            *)
(***************************************************************************)
Kind(pl) == IF pl[3] # "plain" THEN pl[3]
            ELSE IF pl[1] = 0 THEN "defaults"
            ELSE IF pl[2] = 0 THEN "route" ELSE "path"
Content(pl) == IF doc.tables[pl] = <<>> THEN <<>> ELSE doc.tables[pl][1]

ConfigInit ==
    /\ doc \in Documents
    /\ over \in Overrides
    /\ loaded = Load(doc, over)
    /\ edits = 0

Rewrite(pl, table) ==
    /\ edits < MaxEdits
    /\ edits' = edits + 1
    /\ doc' = [doc EXCEPT !.tables[pl] = table]
    /\ loaded' = Load(doc', over)
    /\ UNCHANGED over

Give(pl) == \E f \in DOMAIN Offers[Kind(pl)] : \E v \in Offers[Kind(pl)][f] :
                Rewrite(pl, <<f :> v @@ Content(pl)>>)
Omit(pl) == /\ doc.tables[pl] # <<>>
            /\ \E f \in DOMAIN Content(pl) :
                   Rewrite(pl, <<Restrict(Content(pl), DOMAIN Content(pl) \ {f})>>)
DropTable(pl) == /\ doc.tables[pl] # <<>> /\ pl[3] # "plain"
                 /\ Rewrite(pl, <<>>)

Editable == {pl \in Place : doc.shape = "legacy" => pl[1] = 1}
ConfigNext == \E pl \in Editable : Give(pl) \/ Omit(pl) \/ DropTable(pl)

ConfigSpec == ConfigInit /\ [][ConfigNext]_configVars

(***************************************************************************)
(* Properties.                                                             *)
(***************************************************************************)
Switch(table) == IF table = <<>> THEN <<>>
                 ELSE <<IF "enabled" \in DOMAIN table[1]
                        THEN <<table[1]["enabled"]>> ELSE <<>>>>
SwitchedOff(table) == /\ table # <<>> /\ "enabled" \in DOMAIN table[1]
                      /\ table[1]["enabled"] # "on"
Protected(c, p) == BackendPolicy(c, p) # <<>>

(* The policy of a route covers all of its backends: a path or a rule that *)
(* says nothing of authorization, or only some of its settings, is never   *)
(* left open beneath a protected route, and nothing but its own table,     *)
(* with `enabled = false`, opens it.  A legacy rule is covered in one of   *)
(* two ways, when the document is parsed or when the session starts,       *)
(* depending on its prefix.                                                *)
RouteProtectsPaths ==
    \A r \in DOMAIN loaded : loaded[r].authorization # <<>> =>
        \A p \in DOMAIN loaded[r].rules :
            \/ Protected(loaded[r], p)
            \/ /\ doc.shape = "multi" /\ p # 0
               /\ SwitchedOff(doc.tables[<<r, p, "authorization">>])

(* Every policy that is loaded, of a route or of a path and from whatever  *)
(* mix of layers, can admit a caller by each method it switches on: there  *)
(* is an audience to accept, or a client to sign in with on two different  *)
(* reserved endpoints.                                                     *)
PolicyUsable ==
    \A r \in DOMAIN loaded : \A a \in Policies(loaded[r]) :
        /\ \/ a.bearer # "off"
           \/ a.oidc = "on"
           \/ a.oidc = Unset /\ a.oidc_client_id \notin {Unset, Blank}
        /\ a.bearer # "off" => a.audiences # Blank
        /\ OidcEnabled(a) =>
               /\ a.oidc_client_id \notin {Unset, Blank}
               /\ Cardinality({a.oidc_callback_path, a.oidc_logout_path}
                      \cap {"/_lfp/auth/callback", "/_lfp/auth/logout"}) = 2

(* client_id stays unique among the routes of a process, also under the    *)
(* --client-id override.                                                   *)
UniqueIds ==
    Cardinality({loaded[r].settings.client_id : r \in DOMAIN loaded})
        = Len(loaded)

Edited == {pl \in Place : doc.tables[pl] # doc'.tables[pl]}
BothLoad == loaded # <<>> /\ loaded' # <<>>

(* A backend gains or loses its policy only by an edit of an `enabled`     *)
(* switch or of the presence of an authorization table: blanking or        *)
(* omitting any other setting of a policy is refused or inherited, it      *)
(* never silently removes the policy.                                      *)
ProtectionBySwitch ==
    [][BothLoad =>
        \A r \in DOMAIN loaded : \A p \in DOMAIN loaded[r].rules :
            Protected(loaded[r], p) # Protected(loaded'[r], p) =>
                \E pl \in Edited :
                    /\ pl[3] = "authorization"
                    /\ Switch(doc.tables[pl]) # Switch(doc'.tables[pl])]_configVars

(* An edit of one route leaves every other route as it was, and an edit of *)
(* one path leaves its route and the route's other paths as they were.     *)
EditIsolated ==
    [][BothLoad => \A pl \in Edited :
        pl[1] # 0 =>
            /\ \A r \in DOMAIN loaded \ {pl[1]} : loaded'[r] = loaded[r]
            /\ pl[2] # 0 /\ pl[1] \in DOMAIN loaded =>
                   \E rule \in {loaded'[pl[1]].rules[pl[2]]} :
                       loaded'[pl[1]] =
                           [loaded[pl[1]] EXCEPT !.rules[pl[2]] = rule]]_configVars

(* Nearest wins, setting by setting: while a nearer table of the           *)
(* multi-route shape gives a setting a value that counts, no edit of that  *)
(* setting in a table further out changes what the nearer place loads.     *)
Part(c, p, s) ==
    CASE s = "oauth" -> c.oauth
      [] s = "acme" -> c.acme
      [] s = "authorization" -> IF p = 0 THEN c.authorization
                                ELSE c.rules[p].authorization
      [] s = "plain" -> IF p = 0 THEN <<c.settings, c.rules[0].settings>>
                        ELSE <<c.rules[p].settings>>
Differing(t, u) == {f \in DOMAIN t \cup DOMAIN u :
    ~(f \in DOMAIN t /\ f \in DOMAIN u /\ t[f] = u[f])}
ShadowedEditInert ==
    [][BothLoad /\ doc.shape = "multi" => \A pl \in Edited :
        (doc.tables[pl] # <<>> /\ doc'.tables[pl] # <<>>) =>
        \A n \in Nodes \ {<<0, 0>>} :
            (/\ <<n[1], n[2], pl[3]>> \in Place \ {pl}
             /\ pl[1] \in {0, n[1]} /\ pl[2] = 0
             /\ doc.tables[<<n[1], n[2], pl[3]>>] # <<>>
             /\ \A f \in Differing(Content(pl), Content(pl)') :
                    Gives("multi", Content(<<n[1], n[2], pl[3]>>), f))
            => Part(loaded'[n[1]], n[2], pl[3])
                   = Part(loaded[n[1]], n[2], pl[3])]_configVars

(* In the multi-route shape an edit changes the edited settings and        *)
(* nothing else, at every place that inherits them: a table added between  *)
(* a path and the defaults does not hide the other settings the path had   *)
(* from further out, which is what resolving from the nearest parent alone *)
(* would do (the comment on merge_authorization_layers).                   *)
OnlyEditedSettings ==
    [][BothLoad /\ doc.shape = "multi" => \A pl \in Edited :
        \A n \in Nodes \ {<<0, 0>>} : \A s \in Sections(n) :
            LET before == Part(loaded[n[1]], n[2], s)
                after == Part(loaded'[n[1]], n[2], s)
            IN \A i \in DOMAIN before \cap DOMAIN after :
                   Differing(before[i], after[i]) \subseteq
                       IF s = pl[3] THEN Differing(Content(pl), Content(pl)')
                       ELSE {}]_configVars
=============================================================================
