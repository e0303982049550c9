------------------------------ MODULE Pairing -------------------------------
(***************************************************************************)
(* What the ingress promises for each public connection: it is served      *)
(* directly, or offered to one client and then joined to that client and   *)
(* to no other, and once dropped it never comes back.                      *)
(***************************************************************************)
CONSTANTS Conn, Client, NoClient

VARIABLES
    status,  \* status[k]
    owner,   \* owner[k]: the client the connection was offered to
    peers    \* peers[k]: the clients whose traffic reaches the connection

pairingVars == <<status, owner, peers>>

Status == {"idle", "waiting", "direct", "offered", "joined", "dropped"}

PairingInit ==
    /\ status = [k \in Conn |-> "idle"]
    /\ owner = [k \in Conn |-> NoClient]
    /\ peers = [k \in Conn |-> {}]

Take(k) ==
    /\ status[k] = "idle"
    /\ status' = [status EXCEPT ![k] = "waiting"]
    /\ UNCHANGED <<owner, peers>>

ServeDirectly(k) ==
    /\ status[k] = "waiting"
    /\ status' = [status EXCEPT ![k] = "direct"]
    /\ UNCHANGED <<owner, peers>>

Offer(k, c) ==
    /\ status[k] = "waiting"
    /\ status' = [status EXCEPT ![k] = "offered"]
    /\ owner' = [owner EXCEPT ![k] = c]
    /\ UNCHANGED peers

Join(k) ==
    /\ status[k] = "offered"
    /\ status' = [status EXCEPT ![k] = "joined"]
    /\ peers' = [peers EXCEPT ![k] = {owner[k]}]
    /\ UNCHANGED owner

\* Connections are dropped one at a time, or many at once with the process.
Drop(S) ==
    /\ status' = [k \in Conn |-> IF k \in S THEN "dropped" ELSE status[k]]
    /\ peers' = [k \in Conn |-> IF k \in S THEN {} ELSE peers[k]]
    /\ UNCHANGED owner

PairingNext ==
    \/ \E k \in Conn : Take(k) \/ ServeDirectly(k) \/ Join(k)
    \/ \E k \in Conn, c \in Client : Offer(k, c)
    \/ \E S \in SUBSET Conn : Drop(S)

PairingSpec == PairingInit /\ [][PairingNext]_pairingVars
=============================================================================
