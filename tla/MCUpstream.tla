---------------------------- MODULE MCUpstream ----------------------------
(***************************************************************************)
(* Three fetches: one that is piped, one on its way and one that was       *)
(* aborted when close() is called.                                         *)
(***************************************************************************)
EXTENDS Upstream

CONSTANTS f1, f2, f3
=============================================================================
