----------------------------- MODULE MCSession -----------------------------
(***************************************************************************)
(* Messages for model checking Session.                                    *)
(***************************************************************************)
EXTENDS Session

CONSTANTS m1, m2
=============================================================================
