-------------------------- MODULE MCClientPlugins --------------------------
(***************************************************************************)
(* Three commands on one package, any command in any process.              *)
(***************************************************************************)
EXTENDS ClientPlugins, TLC

Interchangeable == Permutations(Processes)
=============================================================================
