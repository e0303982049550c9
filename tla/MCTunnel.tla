------------------------------ MODULE MCTunnel ------------------------------
(***************************************************************************)
(* Small instances of Tunnel for TLC.                                      *)
(***************************************************************************)
EXTENDS TunnelInvariant, TLC

\* Client 1 serves host a only, every other client serves a and the default
\* route.
ServesSome == [c \in Client |-> IF c = 1 THEN {"a"} ELSE {"a", NoHost}]

ConnSymmetry == Permutations(Conn)
=============================================================================
