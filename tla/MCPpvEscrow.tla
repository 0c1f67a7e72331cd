---------------------------- MODULE MCPpvEscrow ----------------------------
(* Small instances of the escrow: values for the structured constants. *)
EXTENDS PpvEscrowSafety, TLC

CONSTANTS w1, w2, w3, a1, a2

\* With one agreement w1 is the sponsor; with two, w1 and w2 each open one, so
\* that a wallet is buyer of one and seller of the other.
MCCreatorOf == [a \in Agreements |-> IF a = a1 THEN w1 ELSE w2]

\* Exactly the ids that escrow can mint; every wallet may also mint them directly.
MCProofIds == Agreements \X ProofSlots
-----------------------------------------------------------------------------
(* The run follows three families of behaviours, each within bounds of its own. *)
Untouched(a) == State(a) = "Absent"
Minted(a) == {addr \in Addresses : addr[2][1] = a /\ Exists(addr)}

\* Of one agreement: three wallets, up to three tranches, transfers into the vault, no
\* evidence.
MoneyOfOne == Untouched(a2) /\ CoreInit

\* The two parties only, and a single token at stake.
SmallStakes ==
    /\ balance[w3] = StartingBalance
    /\ \A a \in Agreements :
        agreement[a].amount <= 1 /\ agreement[a].counterparty # w3

\* Two proofs of one agreement, and both parties calling ppv_core directly.
EvidenceOfOne == SmallStakes /\ Untouched(a2) /\ Minted(a2) = {}

\* Two agreements, each paid once and with one proof; one party calls ppv_core directly.
EvidenceOfTwo ==
    /\ SmallStakes
    /\ \A a \in Agreements :
        /\ agreement[a].type = "Escrow" /\ agreement[a].proofCount <= 1
        /\ \A addr \in Minted(a) :
            /\ addr[2][2] = 0
            /\ \/ addr[1] = w1
               \/ proof[a][0].submitter = addr[1] /\ record[addr].status = "Active"

MCNext == Next /\ (MoneyOfOne \/ EvidenceOfOne \/ EvidenceOfTwo)'
MCSpec == Init /\ [][MCNext]_vars
=============================================================================
