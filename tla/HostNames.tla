----------------------------- MODULE HostNames -----------------------------
(***************************************************************************)
(* The host name matching of shared/src/routing.rs: wildcard patterns and  *)
(* the subject a claim for a host is sent to.  "." separates labels.       *)
(***************************************************************************)
EXTENDS Routing, SequencesExt

Dot == "."

\* to_ascii_lowercase over the one capital letter of the alphabet.
Lower(s) == [i \in DOMAIN s |-> IF s[i] = "A" THEN "a" ELSE s[i]]

\* matches_pattern; <<>> as hostname stands for None, and only wildcard
\* patterns hold a "*".
MatchesPattern(pattern, hostname) ==
    IF pattern = <<>> THEN hostname = <<>>
    ELSE IF hostname = <<>> THEN FALSE
    ELSE IF IsPrefix(<<"*", Dot>>, pattern)
         THEN LET rest == Drop(pattern, 2)
              IN  /\ IsSuffix(rest, hostname)
                  /\ Len(hostname) > Len(rest)
                  /\ hostname[Len(hostname) - Len(rest)] = Dot
         ELSE Lower(pattern) = Lower(hostname)

\* hostname_request_subject below a one-token prefix: the labels reversed,
\* or <<>> when the hostname cannot be a subject.
Split(s, c) ==
    LET at == {i \in 1..Len(s) : s[i] = c}
        bounds == SetToSortSeq(at \cup {0, Len(s) + 1}, <)
    IN  [k \in 1..(Len(bounds) - 1) |-> SubSeq(s, bounds[k] + 1, bounds[k + 1] - 1)]

Hyphen == "-"
LabelValid(l) == l # <<>> /\ Head(l) # Hyphen /\ Last(l) # Hyphen /\ Slash \notin Range(l)

RequestSubject(hostname) ==
    LET labels == Split(Lower(TrimEnd(hostname, Dot)), Dot)
    IN  IF Len(labels) >= 2 /\ (\A l \in Range(labels) : LabelValid(l)) THEN Reverse(labels) ELSE <<>>
=============================================================================
