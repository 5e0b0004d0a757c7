------------------------------ MODULE MCOAuth ------------------------------
(***************************************************************************)
(* Two setups that race for the master key and two proxies of the first    *)
(* one's profile; or one setup, one proxy and a login.                     *)
(***************************************************************************)
EXTENDS OAuth

CONSTANTS s1, s2, p1, p2

MCCasts == {{s1, s2, p1, p2}, {s1, p1, Login}}
=============================================================================
