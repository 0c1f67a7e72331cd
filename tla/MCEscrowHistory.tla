-------------------------- MODULE MCEscrowHistory --------------------------
(* A small instance of the history: one agreement, two wallets. *)
EXTENDS EscrowSeals

CONSTANTS w1, w2, a1

MCCreatorOf == [a \in Agreements |-> w1]
MCProofIds == Agreements \X ProofSlots
=============================================================================
