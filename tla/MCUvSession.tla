---------------------------- MODULE MCUvSession ----------------------------
(***************************************************************************)
(* Two messages and two clients for model checking UvSession.              *)
(***************************************************************************)
EXTENDS UvSession

CONSTANTS m1, m2, c1, c2

MCMade == <<m1, m2>>
=============================================================================
