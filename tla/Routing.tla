------------------------------ MODULE Routing ------------------------------
(***************************************************************************)
(* The path matching of shared/src/routing.rs and the prefix handling of   *)
(* client/src/http_proxy.rs.  A string is a sequence over a small alphabet *)
(* in which "/" separates path segments; every other member is an ordinary *)
(* character.  RoutingFacts compares these operators with the lists of     *)
(* segments.                                                               *)
(***************************************************************************)
EXTENDS Integers, Sequences, FiniteSetsExt

Slash == "/"
Root == <<Slash>>

StartsWith(s, c) == s # <<>> /\ Head(s) = c
Drop(s, n) == SubSeq(s, n + 1, Len(s))

\* strip_prefix(p) finds p at the beginning of s.
HasPrefix(s, p) == Len(p) <= Len(s) /\ SubSeq(s, 1, Len(p)) = p

\* trim_end_matches(c)
TrimEnd(s, c) ==
    LET kept == {i \in 1..Len(s) : s[i] # c}
    IN  SubSeq(s, 1, IF kept = {} THEN 0 ELSE Max(kept))

\* matches_path_prefix
MatchesPathPrefix(prefix, path) ==
    IF prefix = Root
    THEN StartsWith(path, Slash)
    ELSE LET p == TrimEnd(prefix, Slash)
         IN  path = p \/ (HasPrefix(path, p) /\ StartsWith(Drop(path, Len(p)), Slash))

\* max_by_key over the rules that match, the last of equals, or else the
\* first rule without a prefix.  A rule is a record with field prefix, which
\* is <<>> for None; the result is an index of rules, 0 when there is none.
Specificity(rules, i) == Len(rules[i].prefix)

SelectForPath(rules, path) ==
    LET matching  == {i \in DOMAIN rules :
                        rules[i].prefix # <<>> /\ MatchesPathPrefix(rules[i].prefix, path)}
        longest   == {i \in matching :
                        \A j \in matching : Specificity(rules, j) <= Specificity(rules, i)}
        fallbacks == {i \in DOMAIN rules : rules[i].prefix = <<>>}
    IN  IF matching # {} THEN Max(longest)
        ELSE IF fallbacks # {} THEN Min(fallbacks)
        ELSE 0

\* canonical_prefix_redirect: a stripped prefix asked for without its slash.
RedirectsPrefix(rule, path) ==
    rule.strip /\ TrimEnd(rule.prefix, Slash) # <<>> /\ path = TrimEnd(rule.prefix, Slash)

RedirectTarget(rule) == TrimEnd(rule.prefix, Slash) \o Root

\* strip_uri_prefix: the remainder after the prefix, or its error.
Strippable(prefix, path) ==
    LET p == TrimEnd(prefix, Slash)
    IN  HasPrefix(path, p) /\ (path = p \/ StartsWith(Drop(path, Len(p)), Slash))

StripPrefix(prefix, path) ==
    LET rest == Drop(path, Len(TrimEnd(prefix, Slash)))
    IN  IF rest = <<>> THEN Root ELSE rest
-----------------------------------------------------------------------------
(***************************************************************************)
(* What matching has to find.  Cut where a segment ends, a path leaves its *)
(* ancestors and itself; a prefix covers the path when it names one of     *)
(* them, whatever slashes end it.                                          *)
(***************************************************************************)
Ancestors(path) ==
    {SubSeq(path, 1, n) : n \in {m \in 0..Len(path) : m = Len(path) \/ path[m + 1] = Slash}}

Covers(prefix, path) == TrimEnd(prefix, Slash) \in Ancestors(path)

\* A prefix that ends in more than one slash.
Doubled(prefix) == Len(TrimEnd(prefix, Slash)) + 1 < Len(prefix)
=============================================================================
