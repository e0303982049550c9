--------------------------- MODULE ClaimSelection ---------------------------
(***************************************************************************)
(* The ingress's choice among the clients that claimed a connection: the   *)
(* claims are sorted by client id and a per-route cursor picks one of them *)
(* (next_claim_index in ingress/src/lib.rs).  Client ids are numbers here, *)
(* so that their order stands for the order of the id strings.             *)
(***************************************************************************)
EXTENDS Integers, FiniteSets

\* Position of client c in the sorted vector of the claims S, from 0.
Rank(S, c) == Cardinality({d \in S : d < c})

SelectedNoSort(S, cursor, c) == c \in S

\* Claimant c is the one at index cursor % claim_count.
Selected(S, cursor, c) ==
    /\ c \in S
    /\ Rank(S, c) = cursor % Cardinality(S)

AdvancedUnwrapped(S, cursor) == cursor + 1

\* The cursor left behind for the next connection of the same route.
Advanced(S, cursor) == (cursor + 1) % Cardinality(S)
=============================================================================
