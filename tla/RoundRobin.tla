----------------------------- MODULE RoundRobin -----------------------------
(***************************************************************************)
(* How next_claim_index spreads the connections of each route over its     *)
(* claimants (ingress/src/lib.rs).  One step is one decision: the claims   *)
(* of a connection were collected, and the route's cursor is read and      *)
(* advanced under its lock.  The decisions of concurrent connections to a  *)
(* route are therefore a sequence, with any claimants in each.             *)
(***************************************************************************)
EXTENDS ClaimSelection

CONSTANTS
    Route,     \* route keys: lowercased hostnames and "<default>"
    Client,    \* client ids, in the order of the id strings
    MaxLost    \* losses are counted up to this bound

ASSUME RoundRobinAssumption ==
    /\ Client \subseteq Nat
    /\ IsFiniteSet(Client)
    /\ MaxLost \in Nat

VARIABLES
    cursor,     \* route_claim_cursor
    claimants,  \* claimants[r]: who claimed the last connection of r
    lost,       \* lost[r][c]: claims of r that c lost since it last won one
    missed      \* missed[r][c]: the same, since the claimants of r changed

rrVars == <<cursor, claimants, lost, missed>>

Never == [c \in Client |-> 0]

RRInit ==
    /\ cursor = [r \in Route |-> 0]
    /\ claimants = [r \in Route |-> {}]
    /\ lost = [r \in Route |-> Never]
    /\ missed = [r \in Route |-> Never]

Count(n) == IF n < MaxLost THEN n + 1 ELSE n

\* The tally after w won among S: a claimant that is not w lost once more.
Tally(tally, S, w) ==
    [c \in Client |-> IF c = w THEN 0
                      ELSE IF c \in S THEN Count(tally[c]) ELSE tally[c]]

SelectClaim(r, S) ==
    /\ \E w \in Client :
          /\ Selected(S, cursor[r], w)
          /\ lost' = [lost EXCEPT ![r] = Tally(@, S, w)]
          /\ missed' = [missed EXCEPT ![r] =
                           Tally(IF S = claimants[r] THEN @ ELSE Never, S, w)]
    /\ cursor' = [cursor EXCEPT ![r] = Advanced(S, @)]
    /\ claimants' = [claimants EXCEPT ![r] = S]

RRNext == \E r \in Route, S \in (SUBSET Client) \ {{}} : SelectClaim(r, S)

RRSpec == RRInit /\ [][RRNext]_rrVars
-----------------------------------------------------------------------------
\* While the same clients keep claiming a route, none of them is passed over
\* for a whole turn: among n claimants each wins at least every n-th
\* connection, whatever cursor earlier claimants left and whatever happens on
\* the other routes (next_claim_index).
StableRotation ==
    \A r \in Route : \A c \in claimants[r] :
        missed[r][c] < Cardinality(claimants[r])

\* "Eligible clients claim the request; the ingress selects one round-robin"
\* (README): no client loses as many of its claims in a row as there are
\* clients, also when the claimants differ from connection to connection.
RoundRobinTurn ==
    \A r \in Route, c \in Client : lost[r][c] < Cardinality(Client)
=============================================================================
