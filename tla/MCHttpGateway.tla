--------------------------- MODULE MCHttpGateway ---------------------------
(***************************************************************************)
(* An initialization and a modern request that race with the close of two  *)
(* routes, and a request for the session that the first becomes.           *)
(***************************************************************************)
EXTENDS HttpGateway

CONSTANTS i, m, s, pa, pb

MCKindOf == [r \in Requests |->
    CASE r = i -> "initialize" [] r = m -> "modern" [] r = s -> "session"]
=============================================================================
