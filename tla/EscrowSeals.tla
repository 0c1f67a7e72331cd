---------------------------- MODULE EscrowSeals ----------------------------
(***************************************************************************)
(* The seal of an agreement, "PPV Verified", as the SDK derives it twice:  *)
(* from the reconstructed history (the escrow credential), and from the    *)
(* reputation events its program events are normalised to.  Both are       *)
(* functions of what an indexer has read, which may lack a transaction.    *)
(***************************************************************************)
EXTENDS EscrowHistory

\* mapEscrowEvent: what each program event says of anyone's conduct.  A bounty
\* naming its payee says nothing.
EventType ==
    [AgreementOpened    |-> "agreement.created",
     AgreementFunded    |-> "escrow.funded",
     WorkCompleted      |-> "work.completed",
     SettlementExecuted |-> "settlement.completed",
     RefundExecuted     |-> "agreement.refunded",
     AgreementAbandoned |-> "agreement.cancelled",
     DisputeOpened      |-> "dispute.opened",
     DisputeResolved    |-> "dispute.resolved",
     ProofSubmitted     |-> "proof.created",
     ProofApproved      |-> "proof.approved",
     ProofRejected      |-> "proof.rejected",
     MilestoneCreated   |-> "milestone.created",
     MilestoneSubmitted |-> "milestone.delivered",
     MilestoneApproved  |-> "milestone.approved",
     MilestoneRejected  |-> "milestone.rejected",
     MilestoneSettled   |-> "milestone.settled"]

\* normalizeEscrowEvent.  An event's id is a hash of its coordinates, so events
\* delivered again or in another order make the same set; the block's time stands
\* for when it occurred.
NormalizeEscrowEvents(R) ==
    {[eventType |-> EventType[r.name], occurredAt |-> r.slot] :
        r \in {q \in R : q.name \in DOMAIN EventType}}

\* `verified`: the caller says that the account was read and matched.
DeriveSealFacts(events, verified) ==
    LET at(type) == {e.occurredAt : e \in {d \in events : d.eventType = type}}
        some(types) == \E t \in types : at(t) # {}
    IN  [chainVerified   |-> verified,
         counterpartyConfirmed |-> some({"milestone.approved", "proof.approved",
                                         "settlement.completed", "milestone.settled"}),
         settled         |-> some({"settlement.completed", "milestone.settled"}),
         refunded        |-> some({"agreement.refunded"}),
         disputeOpen     |-> /\ some({"dispute.opened"})
                             /\ some({"dispute.resolved"}) =>
                                    Max(at("dispute.opened")) > Max(at("dispute.resolved")),
         disputeResolved |-> some({"dispute.resolved"})]

\* Broken: the seller's own claim that it finished counts.
EscrowSealFacts_Claimed(h, R, verified) ==
    [chainVerified   |-> verified,
     counterpartyConfirmed |-> \/ \E i \in DOMAIN h.proofs : h.proofs[i] = "Approved"
                               \/ \E i \in DOMAIN h.milestones : h.milestones[i] = "Settled"
                               \/ h.state \in {"Completed", "Settled"},
     settled         |-> h.settled > 0,
     refunded        |-> h.refunded > 0,
     disputeOpen     |-> h.state = "Disputed",
     disputeResolved |-> Named(R, {"DisputeResolved"}) # {}]

\* escrowSealFacts, of the history h of the receipts R.
EscrowSealFacts(h, R, verified) ==
    [chainVerified   |-> verified,
     counterpartyConfirmed |-> \/ \E i \in DOMAIN h.proofs : h.proofs[i] = "Approved"
                               \/ \E i \in DOMAIN h.milestones : h.milestones[i] = "Settled"
                               \/ h.state = "Settled",
     settled         |-> h.settled > 0,
     refunded        |-> h.refunded > 0,
     disputeOpen     |-> h.state = "Disputed",
     disputeResolved |-> Named(R, {"DisputeResolved"}) # {}]

\* Broken: an open dispute suspends the seal.
ResolveSealState_Suspended(facts) ==
    IF facts.disputeOpen THEN "verified"
    ELSE IF facts.disputeResolved THEN "dispute_resolved"
    ELSE IF facts.settled THEN "settled"
    ELSE IF facts.counterpartyConfirmed THEN "counterparty_confirmed"
    ELSE IF facts.chainVerified THEN "verified"
    ELSE "recorded"

ResolveSealState(facts) ==
    IF facts.disputeResolved /\ ~facts.disputeOpen THEN "dispute_resolved"
    ELSE IF facts.settled THEN "settled"
    ELSE IF facts.counterpartyConfirmed THEN "counterparty_confirmed"
    ELSE IF facts.chainVerified THEN "verified"
    ELSE "recorded"

SealRank ==
    [recorded |-> 0, verified |-> 1, counterparty_confirmed |-> 2, settled |-> 3,
     dispute_resolved |-> 4]

\* escrowCredential, of the history h, where it is accepted.
EscrowCredential(h, R, verified) == ResolveSealState(EscrowSealFacts(h, R, verified))

ReputationSeal(R, verified) ==
    ResolveSealState(DeriveSealFacts(NormalizeEscrowEvents(R), verified))

ReceiptsOf(a, read) == {r \in Receipts(read) : r.agreement = a}
-----------------------------------------------------------------------------
\* What either seal says of a whole history is so on the accounts: money was earned exactly
\* if a tranche or the whole was paid to the seller, returned exactly if the agreement ended
\* so, a dispute is open exactly while the agreement is disputed; and the seller's word that
\* it finished never passes for the other party's consent.
Earned(a) ==
    State(a) = "Settled" \/ \E i \in MilestoneSlots : milestone[a][i].state = "Settled"
Accepted(a) ==
    \/ Earned(a)
    \/ \E i \in MilestoneSlots : milestone[a][i].state = "Approved"
    \/ \E i \in ProofSlots : proof[a][i].status = "Approved"
IsTrueOf(a, facts) ==
    /\ facts.counterpartyConfirmed => Accepted(a)
    /\ facts.settled <=> Earned(a)
    /\ facts.refunded <=> State(a) = "Refunded"
    /\ facts.disputeOpen <=> State(a) = "Disputed"
    /\ facts.disputeResolved => State(a) \in {"Settled", "Refunded"}
CredentialFacts(a) == EscrowSealFacts(History(a), ReceiptsOf(a, DOMAIN committed), TRUE)
ReputationFacts(a) ==
    DeriveSealFacts(NormalizeEscrowEvents(ReceiptsOf(a, DOMAIN committed)), TRUE)
SealsAreTrue ==
    \A a \in Agreements :
        State(a) # "Absent" =>
            IsTrueOf(a, CredentialFacts(a)) /\ IsTrueOf(a, ReputationFacts(a))

\* What a seal claims is never taken back, and never claimed too early: a reader that
\* lacks a transaction, the newest or another one, shows at most the seal that the
\* whole history gives.
SealsOnlyRise ==
    \A a \in Agreements :
        State(a) # "Absent" =>
            LET all == ReceiptsOf(a, DOMAIN committed)
                credential == SealRank[EscrowCredential(History(a), all, TRUE)]
                reputation == SealRank[ReputationSeal(all, TRUE)]
            IN  \A i \in DOMAIN committed :
                    LET R == ReceiptsOf(a, DOMAIN committed \ {i})
                        h == Reconstruct(R)
                    IN  /\ SealRank[ReputationSeal(R, TRUE)] <= reputation
                        /\ h # Refused => SealRank[EscrowCredential(h, R, TRUE)] <= credential
-----------------------------------------------------------------------------
(* A claim of the sources that does not hold. *)

\* credential.ts: "It agrees with `deriveSealFacts` by construction, because both read
\* the same facts" - so of one whole history the two pipelines derive the same facts.
SealsAgree ==
    \A a \in Agreements : State(a) # "Absent" => CredentialFacts(a) = ReputationFacts(a)
=============================================================================
