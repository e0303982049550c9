--------------------------- MODULE MCConfigLayers ---------------------------
(***************************************************************************)
(* Two routes, the first with two paths, and two starting documents: a     *)
(* multi-route one whose layers all say something, and a flat one.         *)
(***************************************************************************)
EXTENDS ConfigLayers

MCPaths == <<2, 0>>

Text == {Blank, "a", "b"}
MCOffers == [
    authorization |->
        [enabled |-> {"on", "off"}, bearer |-> {"on", "off"},
         oidc |-> {"on", "off"}, issuer |-> Text, audiences |-> {Blank, "a"},
         required_roles |-> {Blank, "a"}, oidc_client_id |-> {Blank, "a"},
         oidc_scopes |-> {Blank, "openid", "email"},
         oidc_callback_path |-> {Blank, "/_lfp/auth/logout", "/app"},
         oidc_logout_path |-> {"/_lfp/auth/callback"},
         oidc_client_secret_file |-> {Blank, "a"},
         algorithms |-> {Blank, "a"}, max_header_bytes |-> {"low", "a"}],
    oauth |-> [username |-> {"a", "b"}, scopes |-> {"a"}],
    acme |-> [enabled |-> {"on", "off"}, cache_dir |-> {Blank, "a"}],
    defaults |-> [nats_url |-> {"b"}, proxy_headers |-> {"off"},
                  backend_host |-> {"b"}],
    route |-> [client_id |-> {Blank, "a", "b"}, nats_url |-> {"a"},
               proxy_headers |-> {"on"}, backend_addr |-> {"b"},
               nats_token_file |-> {"a"}],
    path |-> [path_prefix |-> {"/a", "/b", "relative"},
              proxy_headers |-> {"on"}, backend_host |-> {"a"}]]

OAuth == [f \in OAuthFields \ {"scopes", "renew_before_seconds"} |-> "a"]

Layered ==
    [shape |-> "multi", tables |-> [pl \in Place |->
        CASE pl[3] = "oauth" -> IF pl[1] = 0 THEN <<OAuth>> ELSE <<>>
          [] pl[3] = "acme" -> IF pl[1] = 2 THEN <<[enabled |-> "off"]>>
                               ELSE <<[cache_dir |-> "a"]>>
          [] pl[3] = "authorization" ->
                 IF pl[1] = 0 THEN <<[issuer |-> "a", audiences |-> "a",
                                      required_roles |-> "a"]>>
                 ELSE IF pl[2] = 1 THEN <<[issuer |-> "b", audiences |-> "a",
                                           oidc_client_id |-> "a"]>>
                 ELSE IF pl[1] = 1 /\ pl[2] = 0 THEN <<>>
                 ELSE <<[enabled |-> "off"]>>
          [] OTHER ->
                 IF pl[1] = 0 THEN <<[nats_url |-> "a", backend_addr |-> "a"]>>
                 ELSE IF pl[2] = 0
                 THEN <<[client_id |-> IF pl[1] = 1 THEN "a" ELSE "c"]>>
                 ELSE <<[path_prefix |-> IF pl[2] = 1 THEN "/a" ELSE "/c",
                         backend_addr |-> "a"]>>]]

\* The client's policy, a rule with a prefix and one without.
Flat ==
    [shape |-> "legacy", tables |-> [pl \in Place |->
        CASE pl[1] # 1 -> <<>>
          [] pl[3] = "oauth" -> <<>>
          [] pl[3] = "acme" -> <<[cache_dir |-> "a"]>>
          [] pl[3] = "authorization" ->
                 IF pl[2] = 0 THEN <<[issuer |-> "a", audiences |-> "a"]>> ELSE <<>>
          [] OTHER ->
                 IF pl[2] = 0 THEN <<[client_id |-> "a", nats_url |-> "a"]>>
                 ELSE IF pl[2] = 1 THEN <<[path_prefix |-> "/a", backend_addr |-> "a"]>>
                 ELSE <<[backend_addr |-> "a"]>>]]

MCDocuments == {Layered, Flat}
MCOverrides == {<<>>, [client_id |-> "x", nats_token_file |-> Blank]}
=============================================================================
