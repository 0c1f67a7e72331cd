---------------------------- MODULE MCCustodyRun ----------------------------
(* The custody matrix with the labels, wallets and amounts of the script. *)
EXTENDS CustodyRun

MCAgreements == Labels
MCCreatorOf == [a \in Agreements |-> Buyer]
MCProofIds == Agreements \X ProofSlots
=============================================================================
