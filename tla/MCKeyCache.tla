----------------------------- MODULE MCKeyCache -----------------------------
(***************************************************************************)
(* Small instances of KeyCache for TLC.                                    *)
(***************************************************************************)
EXTENDS KeyCache, TLC

OneIssuer == [p \in Authorizer |-> CHOOSE i \in Issuer : TRUE]
OneSigner == [k \in Kid |-> CHOOSE i \in Issuer : TRUE]
OneFile == [p \in Authorizer |-> "jwks.json"]

AuthorizerSymmetry == Permutations(Authorizer)
=============================================================================
