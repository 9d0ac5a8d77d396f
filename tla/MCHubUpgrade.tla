---------------------------- MODULE MCHubUpgrade ----------------------------
(***************************************************************************)
(* Instances of HubUpgrade for TLC.                                        *)
(***************************************************************************)
EXTENDS HubUpgrade

CONSTANTS gov, a1, bad, nft, reward

OneAdmin == [r \in Roles |-> gov]

Entry(a, d) == [asset |-> a, distribution |-> d]

(* Everything to an asset, which may be one whose tokens do not exist.     *)
ToEach == { <<Entry(a, Percent100)>> : a \in {a1, bad, nft} }
=============================================================================
