-------------------------- MODULE MCAllianceToken --------------------------
(***************************************************************************)
(* Instances of AllianceToken for TLC.                                     *)
(***************************************************************************)
EXTENDS AllianceToken

CONSTANTS gov, op, v1, v2, v3, reward

TwoAdmins ==
  [r \in {"governance", "controller", "oracle", "operator"} |->
     IF r = "governance" THEN gov ELSE op]

(* The two administrators change places, and back.                         *)
HandOver ==
  { [governance |-> op, controller |-> gov], [governance |-> gov, controller |-> op] }
=============================================================================
