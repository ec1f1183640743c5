---------------------------- MODULE MCSession ----------------------------
(***************************************************************************)
(* Instances of Session: a client whose directory is active, and one whose *)
(* names may not fit, and which comes and goes.                            *)
(***************************************************************************)
EXTENDS Session, TLC

CONSTANTS c1, c2

MCClients == {c1, c2}
OneEvent == (c1 :> 1) @@ (c2 :> 0)
OneFits == {c1}
==========================================================================
