-------------------------- MODULE PpvEscrowSafety --------------------------
(***************************************************************************)
(* What ppv_escrow owes its users: invariants of the accounts, and what a  *)
(* single instruction may never do to them.                                *)
(***************************************************************************)
EXTENDS PpvEscrow, FiniteSets

AgreementRecords ==
    [state : AgreementState \cup {"Absent"}, type : AgreementType,
     counterparty : Wallets \cup {Default}, amount : Nat, settledTotal : Nat,
     milestoneCount : 0 .. MaxMilestones, milestonesSettled : Nat,
     milestoneTotal : Nat, proofCount : 0 .. MaxProofs,
     settlementProof : Citations, disputeOpenedBy : Wallets \cup {Default}]
MilestoneRecords ==
    [state : MilestoneState \cup {"Absent"}, amount : Nat, proof : Citations]
ProofRecords ==
    [submitter : Wallets \cup {Default}, status : EvidenceStatus \cup {"Absent"},
     decidedBy : Wallets \cup {Default}]

\* Every account holds what its Rust type allows.
TypeOK ==
    /\ CoreTypeOK
    /\ agreement \in [Agreements -> AgreementRecords]
    /\ milestone \in [Agreements -> [MilestoneSlots -> MilestoneRecords]]
    /\ proof \in [Agreements -> [ProofSlots -> ProofRecords]]
    /\ balance \in [Wallets \cup {Default} -> Nat]
    /\ vault \in [Agreements -> Nat]
-----------------------------------------------------------------------------
(* Custody. *)

\* What the vault is holding for the two parties.
Owed(a) == IF IsLive(a) THEN Remaining(a) ELSE 0

\* While an agreement is live its vault holds at least what record_payout has
\* not yet accounted for, whatever was paid in tranches before: so no payment
\* that the guards allow can fail for want of tokens.
VaultCoversDebt == \A a \in Agreements : IsLive(a) => vault[a] >= Remaining(a)

\* An agreement that ends Settled or Refunded has paid out all it ever held, and
\* one that never held money has paid nothing.  A milestone contract reaches
\* Settled by counting tranches, so this rests on the schedule being complete.
EndsPaidInFull ==
    \A a \in Agreements :
        /\ State(a) \in {"Settled", "Refunded"} =>
                agreement[a].settledTotal = agreement[a].amount
        /\ State(a) \in {"Absent", "Open", "Cancelled"} =>
                agreement[a].settledTotal = 0
        /\ IsLive(a) => agreement[a].settledTotal < agreement[a].amount

\* The tokens of a set of tranches.
TrancheSum(a, slots) ==
    Cardinality(UNION {{i} \X (1 .. milestone[a][i].amount) : i \in slots})

SettledSlots(a) == {i \in MilestoneSlots : milestone[a][i].state = "Settled"}

\* The two counters and the two totals of the agreement account agree with the
\* milestone accounts they summarise: indices are dense, the schedule adds up and
\* is complete once funded, and each tranche has been paid once.
ScheduleAddsUp ==
    \A a \in Agreements :
        /\ \A i \in MilestoneSlots :
                i < agreement[a].milestoneCount <=> milestone[a][i].state # "Absent"
        /\ agreement[a].milestoneTotal = TrancheSum(a, MilestoneSlots)
        /\ MilestoneActive(a) => agreement[a].milestoneTotal = agreement[a].amount
        /\ agreement[a].milestonesSettled = Cardinality(SettledSlots(a))
        /\ IsLive(a) => agreement[a].settledTotal = TrancheSum(a, SettledSlots(a))

\* A payment debits the vault by exactly what the ledger records, and credits it
\* to one party's account: the counterparty's, unless the agreement ends Refunded.
PaysOneParty(a) ==
    LET paid  == vault[a] - vault'[a]
        payee == IF State(a)' = "Refunded" THEN CreatorOf[a]
                 ELSE agreement[a].counterparty
    IN  /\ agreement'[a].settledTotal = agreement[a].settledTotal + paid
        /\ payee # Default
        /\ balance' = [balance EXCEPT ![payee] = @ + paid]
        /\ \A b \in Agreements \ {a} :
                vault'[b] = vault[b] /\ agreement'[b] = agreement[b]

PaymentsMatchLedger ==
    [][\A a \in Agreements :
        /\ vault'[a] < vault[a] => PaysOneParty(a)
        /\ agreement'[a].settledTotal # agreement[a].settledTotal => vault'[a] < vault[a]]_vars
-----------------------------------------------------------------------------
(* The lifecycle. *)

\* What the parties signed up to never changes after it exists: the terms from
\* the start, the payee from the moment it is named (a bounty names it late),
\* and everything once the agreement is over.
TermsAreFrozen ==
    [][\A a \in Agreements :
        State(a) # "Absent" =>
            /\ agreement'[a].type = agreement[a].type
            /\ agreement'[a].amount = agreement[a].amount
            /\ HasCounterparty(a) =>
                    agreement'[a].counterparty = agreement[a].counterparty
            /\ State(a) # "Open" =>
                    /\ agreement'[a].milestoneTotal = agreement[a].milestoneTotal
                    /\ \A i \in MilestoneSlots :
                            milestone'[a][i].amount = milestone[a][i].amount
            /\ IsTerminal(a) =>
                    agreement'[a] = agreement[a] /\ milestone'[a] = milestone[a]]_vars

\* A dispute stops the money and the work: nothing but the concession that ends
\* it pays anyone, and no tranche moves.
DisputeFreezes ==
    [][\A a \in Agreements :
        State(a) = "Disputed" =>
            /\ milestone'[a] = milestone[a]
            /\ State(a)' = "Disputed" => vault'[a] >= vault[a]]_vars

\* No agreement that holds money is stuck: some instruction that its signers can
\* send brings it closer to its end.  In particular an unclaimed bounty can still be
\* given a payee, a dispute conceded by either party, completed work paid without
\* citing any evidence, and a milestone contract refunded at any point.
LiveHasExit ==
    \A a \in Agreements :
        LET seller == agreement[a].counterparty
            buyer  == CreatorOf[a]
        IN  /\ IsLive(a) /\ ~HasCounterparty(a) =>
                    \E w \in Wallets : ENABLED SelectCounterparty(buyer, a, w)
            /\ State(a) \in {"Funded", "Completed"} /\ HasCounterparty(a) =>
                    ENABLED Refund(seller, a, buyer)
            /\ State(a) = "Completed" =>
                    \A w \in {buyer, seller} : ENABLED Settle(w, a, seller, Default, Default)
            /\ State(a) = "Disputed" =>
                    /\ ENABLED ResolveDispute(buyer, a, seller)
                    /\ ENABLED ResolveDispute(seller, a, buyer)
-----------------------------------------------------------------------------
(* Evidence, across the boundary between the two programs. *)

\* A proof account never outlives or precedes its commitment: its core record is
\* at the derived address, made by its submitter, who is a party; indices are dense;
\* a decision was made by the other party.
EvidenceIsAnchored ==
    \A a \in Agreements, i \in ProofSlots :
        LET p == proof[a][i]
        IN  /\ i < agreement[a].proofCount <=> p.status # "Absent"
            /\ p.status # "Absent" =>
                /\ IsParty(a, p.submitter)
                /\ Exists(CoreProofAddress(p.submitter, a, i))
            /\ p.status \in {"Approved", "Rejected"} <=> p.decidedBy # Default
            /\ p.decidedBy # Default =>
                    IsParty(a, p.decidedBy) /\ p.decidedBy # p.submitter

\* "A decision is final.  Re-deciding would let a party withdraw an approval a settlement
\* had already relied on": a proof keeps its submitter, a decided one never changes
\* again, by whomever and in whatever state of the agreement, and once the agreement is
\* over its evidence stands as it was.
DecisionsAreFinal ==
    [][\A a \in Agreements, i \in ProofSlots :
        /\ proof[a][i].status # "Absent" =>
                /\ proof'[a][i].status # "Absent"
                /\ proof'[a][i].submitter = proof[a][i].submitter
        /\ proof[a][i].decidedBy # Default => proof'[a][i] = proof[a][i]
        /\ proof'[a][i] # proof[a][i] => IsLive(a)]_vars

\* Every citation an account carries names evidence of the same agreement, which
\* is approved still, and is on a payment that happened.
CitationsAreSound ==
    LET Sound(a, c) == \E i \in ProofSlots : c = <<a, i>> /\ proof[a][i].status = "Approved"
    IN  \A a \in Agreements :
        /\ agreement[a].settlementProof # Default =>
                State(a) = "Settled" /\ Sound(a, agreement[a].settlementProof)
        /\ \A i \in MilestoneSlots :
                milestone[a][i].proof # Default =>
                    milestone[a][i].state = "Settled" /\ Sound(a, milestone[a][i].proof)

\* RR13-001: a payment that cites evidence is made only while the commitment behind
\* it stands, wherever the revocation falls between approval and settlement.
Stands(c) ==
    LET submitter == proof[c[1]][c[2]].submitter
    IN  record[CoreProofAddress(submitter, c[1], c[2])].status = "Active"
PaymentsRestOnLiveEvidence ==
    [][\A a \in Agreements :
        /\ agreement'[a].settlementProof # agreement[a].settlementProof =>
                Stands(agreement'[a].settlementProof)
        /\ \A i \in MilestoneSlots :
                milestone'[a][i].proof # milestone[a][i].proof =>
                    Stands(milestone'[a][i].proof)]_vars

-----------------------------------------------------------------------------
(* The escrow program implements the contract its parties rely on. *)
Stage(a) ==
    CASE State(a) \in {"Absent", "Open"} -> "unfunded"
      [] IsLive(a) -> "holding"
      [] OTHER -> "over"

Contract ==
    INSTANCE EscrowContract WITH
        stage <- [a \in Agreements |-> Stage(a)],
        payee <- [a \in Agreements |-> agreement[a].counterparty],
        held  <- [a \in Agreements |-> Owed(a)],
        purse <- balance

\* Every behaviour of the three programs together is, seen from the two parties,
\* a behaviour of EscrowContract: tranches, disputes, refunds and evidence only
\* decide when its money moves, and transfers into a vault move none of it.
ImplementsContract == Contract!ContractSpec
-----------------------------------------------------------------------------
(* A claim of the sources that does not hold. *)

\* proof.rs: "an id minted through escrow can never collide with one a wallet
\* chose for itself" - so the next proof of a live agreement always has a free address.
NextProofAddressIsFree ==
    \A a \in Agreements, w \in Wallets :
        IsLive(a) /\ IsParty(a, w) /\ agreement[a].proofCount < MaxProofs =>
            ~Exists(CoreProofAddress(w, a, agreement[a].proofCount))
=============================================================================
