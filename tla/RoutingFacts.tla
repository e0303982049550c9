---------------------------- MODULE RoutingFacts ----------------------------
(***************************************************************************)
(* The operators of Routing and HostNames against reference definitions,   *)
(* over every pair of paths up to five and of host names up to four        *)
(* characters.  A path begins with a slash, as every configured prefix and *)
(* every request path does.  TLC evaluates the assumptions when it starts. *)
(***************************************************************************)
EXTENDS HostNames

\* The segments of a path below its leading slash, without empty ones at the end.
Segments(path) == Split(TrimEnd(path, Slash), Slash)

\* The segments of a prefix begin the segments of a path.
SegmentsBegin(prefix, path) ==
    StartsWith(path, Slash) /\ IsPrefix(Segments(prefix), Split(path, Slash))

\* A host is below a domain when the domain's labels end its labels.
Below(domain, hostname) ==
    /\ Len(Split(hostname, Dot)) > Len(Split(domain, Dot))
    /\ IsSuffix(Split(domain, Dot), Split(hostname, Dot))
-----------------------------------------------------------------------------
StringsUpTo(n, alphabet) == UNION {[1..k -> alphabet] : k \in 0..n}

PathStrings == {Root \o s : s \in StringsUpTo(4, {"a", "b", Slash})}
HostStrings == StringsUpTo(4, {"a", "A", Dot, Hyphen})
NameStrings == {s \in HostStrings : s # <<>> /\ <<>> \notin Range(Split(s, Dot))}

\* matches_path_prefix accepts a path exactly when the segments of the
\* prefix begin the segments of the path, whatever slashes end the prefix;
\* it then names an ancestor of the path.  A prefix has no more segments than
\* one it covers.
ASSUME PrefixBySegments ==
    \A prefix, path \in PathStrings :
        /\ MatchesPathPrefix(prefix, path) <=> SegmentsBegin(prefix, path)
        /\ Covers(prefix, path) <=> SegmentsBegin(prefix, path)
        /\ Covers(prefix, path) => Len(Segments(prefix)) <= Len(Segments(path))

\* A matched prefix can always be stripped, so prepare_request never turns a
\* routed request into an error; what is left is a path, and the canonical
\* redirect leads to a path of the same rule that is not redirected again.
ASSUME StripFollowsMatch ==
    \A prefix, path \in PathStrings : MatchesPathPrefix(prefix, path) =>
        LET rule == [prefix |-> prefix, strip |-> TRUE]
        IN  /\ Strippable(prefix, path)
            /\ StartsWith(StripPrefix(prefix, path), Slash)
            /\ RedirectsPrefix(rule, path) =>
                  /\ MatchesPathPrefix(prefix, RedirectTarget(rule))
                  /\ ~RedirectsPrefix(rule, RedirectTarget(rule))

\* A wildcard pattern matches exactly the names below its domain: a whole
\* number of labels more, never the domain itself nor a longer last label.
ASSUME WildcardByLabels ==
    \A domain, name \in NameStrings :
        MatchesPattern(<<"*", Dot>> \o domain, name) <=> Below(domain, name)

\* Two names get the same request subject only when they are the same host,
\* case and trailing dots aside, and a subject never has an empty token.
ASSUME SubjectsDistinct ==
    LET subject == [h \in HostStrings |-> RequestSubject(h)]
        host == [h \in HostStrings |-> TrimEnd(Lower(h), Dot)]
    IN  \A x \in HostStrings :
            /\ <<>> \notin Range(subject[x])
            /\ subject[x] # <<>> => \A y \in HostStrings : subject[x] = subject[y] => host[x] = host[y]
=============================================================================
