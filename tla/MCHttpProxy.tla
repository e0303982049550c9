---------------------------- MODULE MCHttpProxy ----------------------------
(***************************************************************************)
(* Instances of HttpProxy.  Every configuration is one validate_client_    *)
(* config accepts: one fallback, distinct prefixes, ACME wherever a path   *)
(* or a policy is.  Startable decides which of them a session serves.      *)
(***************************************************************************)
EXTENDS HttpProxy, RoutingFacts

A == <<"/", "a">>
AB == <<"/", "a", "b">>
ASlash == <<"/", "a", "/">>
ASlashB == <<"/", "a", "/", "b">>
ASlashBSlash == <<"/", "a", "/", "b", "/">>
Deep == <<"/", "a", "/", "b", "/", "a">>
Callback == <<"/", "c">>
LogoutPath == <<"/", "l">>
OtherCallback == <<"/", "d">>
OtherLogout == <<"/", "m">>

SlashSlash == <<"/", "/", "a">>

AllPaths == {Root, A, AB, ASlash, ASlashB, Deep, SlashSlash, Callback, LogoutPath}
BrowserPaths == {Root, A, ASlash, ASlashB, ASlashBSlash, SlashSlash, LogoutPath}

OneRole == [bearer |-> TRUE, oidc |-> TRUE, reg |-> "g1", required |-> {"r"}, all |-> FALSE,
        forward |-> FALSE, callback |-> Callback, logout |-> LogoutPath, max |-> 3]
NoRole == [OneRole EXCEPT !.required = {}, !.reg = "g2", !.callback = OtherCallback,
                         !.logout = OtherLogout, !.forward = TRUE]
BothRoles == [OneRole EXCEPT !.required = {"r", "s"}, !.all = TRUE, !.max = 2, !.callback = OtherCallback,
                            !.logout = OtherLogout]
BearerOnly == [BothRoles EXCEPT !.oidc = FALSE]

Rule(prefix, strip, policy) == [prefix |-> prefix, strip |-> strip, proxy |-> TRUE,
                                http |-> FALSE, host |-> "none", policy |-> policy]
Quiet(prefix, strip, policy) == [Rule(prefix, strip, policy) EXCEPT !.proxy = FALSE]
Conf(rules, passthrough, acme) == [rules |-> rules, passthrough |-> passthrough, acme |-> acme]

SafetyConfigs == {
    Conf(<<Rule(<<>>, FALSE, OneRole), Rule(A, TRUE, BearerOnly), Rule(ASlashB, FALSE, NoPolicy)>>, FALSE, TRUE),
    Conf(<<Quiet(ASlashB, TRUE, OneRole), Rule(ASlash, TRUE, NoRole), Rule(<<>>, FALSE, NoPolicy)>>, TRUE, TRUE),
    Conf(<<Rule(Root, TRUE, NoRole), Quiet(<<>>, FALSE, OneRole)>>, TRUE, TRUE),
    Conf(<<Quiet(<<>>, FALSE, NoPolicy)>>, TRUE, FALSE),
    Conf(<<Rule(<<>>, FALSE, NoPolicy)>>, FALSE, FALSE),
    Conf(<<[Quiet(<<>>, TRUE, NoPolicy) EXCEPT !.http = TRUE]>>, TRUE, FALSE),
    Conf(<<[Quiet(<<>>, FALSE, NoPolicy) EXCEPT !.host = "good"],
           [Quiet(A, TRUE, NoPolicy) EXCEPT !.host = "bad"]>>, TRUE, TRUE)}

\* Two registrations, one registration with two policies, and two policies
\* that keep the default endpoints, which no session serves.
SignInConfigs == {
    Conf(<<Rule(<<>>, FALSE, OneRole), Rule(A, TRUE, NoRole)>>, FALSE, TRUE),
    Conf(<<Rule(<<>>, FALSE, OneRole), Rule(ASlash, TRUE, BothRoles), Rule(ASlashB, TRUE, NoPolicy)>>, FALSE, TRUE),
    Conf(<<Rule(<<>>, FALSE, OneRole),
           Rule(A, TRUE, [NoRole EXCEPT !.callback = Callback, !.logout = LogoutPath])>>, FALSE, TRUE)}

Token(valid, held, named, text) == [valid |-> valid, roles |-> held, named |-> named, text |-> text]

AllTokens == {Token(TRUE, {}, TRUE, TRUE), Token(TRUE, {"r"}, TRUE, TRUE),
              Token(TRUE, {"r", "s"}, FALSE, TRUE), Token(TRUE, {"r", "s"}, TRUE, FALSE),
              Token(FALSE, {"r", "s"}, TRUE, TRUE)}

Account(held, text) == [roles |-> held, text |-> text]

AllAccounts == {Account({}, TRUE), Account({"r"}, TRUE), Account({"s"}, FALSE), Account({"r", "s"}, TRUE)}

\* SafetyConfigs have browsers sign in for the role r or for none.
SafetyAccounts == {Account({}, TRUE), Account({"r"}, TRUE), Account({"s"}, FALSE)}
=============================================================================
