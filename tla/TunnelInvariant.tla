-------------------------- MODULE TunnelInvariant ---------------------------
(***************************************************************************)
(* The inductive invariant behind the pairing properties: requests, claims *)
(* and acknowledgements exist only in the phases that produce them, so the *)
(* host is settled before anybody claims and the winner never changes once *)
(* it has been announced.                                                  *)
(***************************************************************************)
EXTENDS Tunnel

Unasked == {"new", "detect", "passthrough", "prepare"}

Offered == {"ack", "granted", "pending", "relay"}

\* What the messages in flight and the clients' tasks say about a connection.
Messages(c, k) ==
    /\ <<c, k>> \in requests => phase[k] \notin Unasked /\ task[c][k] = "none"
    /\ phase[k] \in Unasked => task[c][k] = "none"
    /\ <<c, k>> \in claimMsgs =>
          phase[k] \in {"await", "collect"} /\ host[k] \in Serves[c]
    /\ sock[c][k] # "none" => task[c][k] \in {"bridge", "done"}

MessagesInv == \A c \in Client, k \in Conn : Messages(c, k)

\* What the handler of a connection has collected and chosen.
ChoiceInv ==
    \A k \in Conn :
        /\ \A c \in claims[k] : host[k] \in Serves[c]
        /\ claims[k] # {} => phase[k] \in Offered \cup {"collect"}
        /\ acked[k] \subseteq claims[k]
        /\ winner[k] # NoClient => phase[k] \in Offered \cup {"closed"}
        /\ phase[k] \in Offered => winner[k] \in claims[k]

\* Requests, claims and callbacks of a connection exist only in the phases
\* that produce them, a winner was a claimant with a matching rule and is kept
\* from the decision on, and the pairing properties hold (handle_ingress,
\* handle_request, handle_client_data).
PairingInv ==
    /\ TypeOK
    /\ MessagesInv
    /\ ChoiceInv
    /\ WinnerServesHost
    /\ OnlyWinnerAccepted
    /\ PairedWithWinner
    /\ AnsweredBeforePending
=============================================================================
