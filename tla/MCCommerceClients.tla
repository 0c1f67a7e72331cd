-------------------------- MODULE MCCommerceClients --------------------------
(* Three wallets, one of which is no party; contents and terms that can be *)
(* changed and changed back.                                                *)
EXTENDS CommerceBinding, TLC

CONSTANTS w1, w2, w3

MCSymmetry == Permutations(Negotiators)
=============================================================================
