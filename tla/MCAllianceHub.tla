---------------------------- MODULE MCAllianceHub ----------------------------
(***************************************************************************)
(* Instances of AllianceHub and HubQueries for TLC: a .cfg picks its       *)
(* values here.                                                            *)
(***************************************************************************)
EXTENDS HubQueries

CONSTANTS gov, op, a1, a2, c1, reward

(* Who holds the roles at first.                                           *)
OneAdmin == [r \in Roles |-> gov]
TwoAdmins == [r \in Roles |-> IF r = "governance" THEN gov ELSE op]

Entry(a, d) == [asset |-> a, distribution |-> d]

(* Everything to one asset.                                                *)
OnlyA1 == { <<Entry(a1, Percent100)>> }

(* Everything to the reward denom, in one entry or in two halves.          *)
OnlyReward ==
  LET half == Entry(reward, Percent100 \div 2)
  IN  { <<Entry(reward, Percent100)>>, <<half, half>> }

(* One half to each of two assets, for the cw20 asset in two entries of    *)
(* two thirds and one third of it.                                         *)
Halves ==
  LET half == Percent100 \div 2
      sixth == Percent100 \div 6
  IN  { <<Entry(a1, half), Entry(c1, half - sixth), Entry(c1, sixth)>> }

(* One asset or the other, and a list that does not add up to 1.0.         *)
OneOfTwo == { <<Entry(a1, Percent100)>>, <<Entry(a2, Percent100)>>, <<>> }
=============================================================================
