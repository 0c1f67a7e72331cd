--------------------------- MODULE CustodyScript ---------------------------
(***************************************************************************)
(* The live custody matrix of scripts/devnet-escrow-custody.mjs as data:   *)
(* every instruction it sends, whether the program must accept or refuse   *)
(* it, the balances that must move and the account fields it then reads.   *)
(*                                                                         *)
(* An agreement is named by its label.  A token account is its owner; the  *)
(* accounts under the second mint are nobody's under the agreement's mint, *)
(* and so are given as Nobody.                                             *)
(***************************************************************************)
EXTENDS Naturals, Sequences

CONSTANTS Buyer, Seller, Outsider,
          Nobody    \* PublicKey.default, an absent account, the wrong mint's account

\* The scenarios, in the order of the run, and the label of each one's agreement.
PrimaryScenarios ==
    <<"ordinaryEscrow", "cancel", "refund", "disputeToSeller", "disputeToBuyer",
      "milestones", "bounty", "proofs">>
Fixtures == {"foreign-milestone-source", "foreign-proof-source"}
Labels == {PrimaryScenarios[k] : k \in DOMAIN PrimaryScenarios} \cup Fixtures
-----------------------------------------------------------------------------
(* Instructions: who signs, for which agreement, and the arguments.  `of` is  *)
(* the agreement that the milestone or proof account presented belongs to.    *)
Ix(op, by, on) ==
    [op |-> op, by |-> by, on |-> on, of |-> on, at |-> 0, amount |-> 0,
     type |-> "Escrow", who |-> Nobody, cited |-> Nobody, core |-> Nobody]

InitializeIx(a, type, payee, amount) ==
    [Ix("initialize_agreement", Buyer, a) EXCEPT
        !.type = type, !.who = payee, !.amount = amount]
FundIx(a) == Ix("fund", Buyer, a)
CancelIx(by, a) == Ix("cancel", by, a)
MarkCompletedIx(by, a) == Ix("mark_completed", by, a)
SettleIx(by, a, to) == [Ix("settle", by, a) EXCEPT !.who = to]
RefundIx(by, a, to) == [Ix("refund", by, a) EXCEPT !.who = to]
OpenDisputeIx(by, a) == Ix("open_dispute", by, a)
ResolveDisputeIx(by, a, to) == [Ix("resolve_dispute", by, a) EXCEPT !.who = to]
SelectCounterpartyIx(by, a, winner) == [Ix("select_counterparty", by, a) EXCEPT !.who = winner]
CreateMilestoneIx(a, i, amount) ==
    [Ix("create_milestone", Buyer, a) EXCEPT !.at = i, !.amount = amount]
UpdateMilestoneIx(name, by, a, i) == [Ix(name, by, a) EXCEPT !.at = i]
SettleMilestoneIx(by, a, i, to) == [Ix("settle_milestone", by, a) EXCEPT !.at = i, !.who = to]
SubmitProofIx(a, i) == [Ix("submit_proof", Seller, a) EXCEPT !.at = i]
DecideProofIx(name, by, a, i) == [Ix(name, by, a) EXCEPT !.at = i]

\* Evidence and the ppv_core record its submitter committed, cited together.
Citing(ix, a, i) == [ix EXCEPT !.cited = <<a, i>>, !.core = <<Seller, <<a, i>>>>]
Foreign(ix, a) == [ix EXCEPT !.of = a]
-----------------------------------------------------------------------------
(* Steps.  `moved` is the one transfer expected; `expect` the fields that the *)
(* account read afterwards must show.                                         *)
Nothing == [from |-> Buyer, to |-> Buyer, amount |-> 0]
Moves(from, to, amount) == [from |-> from, to |-> to, amount |-> amount]

Step(kind, ix, moved, expect) == [kind |-> kind, ix |-> ix, moved |-> moved, expect |-> expect]

Open(a, type, payee, amount) ==
    Step("open", InitializeIx(a, type, payee, amount), Nothing, [state |-> "Open"])
ValueStep(ix, moved, expect) == Step("value", ix, moved, expect)
StateStep(ix, expect) == Step("state", ix, Nothing, expect)
Refuse(ix) == Step("refuse", ix, Nothing, [state |-> "unchanged"])
Send(ix) == Step("send", ix, Nothing, [state |-> "unread"])
RequireEmptyVault(a) == Step("empty", Ix("none", Buyer, a), Nothing, [state |-> "unread"])
Finish(a) == Step("finish", Ix("none", Buyer, a), Nothing, [state |-> "unread"])

Funding(a, amount) == ValueStep(FundIx(a), Moves(Buyer, a, amount), [state |-> "Funded"])
Completion(a) == ValueStep(MarkCompletedIx(Seller, a), Nothing, [state |-> "Completed"])
Payout(ix, amount, state) == ValueStep(ix, Moves(ix.on, ix.who, amount), [state |-> state])
-----------------------------------------------------------------------------
(* Phases 5 and 6. *)
OrdinaryFunded ==
    LET a == "ordinaryEscrow"
    IN  <<Open(a, "Escrow", Seller, 25),
          Funding(a, 25),
          Refuse(FundIx(a)),
          Refuse(MarkCompletedIx(Buyer, a)),
          Completion(a)>>

OrdinarySettled ==
    LET a == "ordinaryEscrow"
    IN  <<Refuse(SettleIx(Seller, a, Outsider)),
          Refuse(SettleIx(Seller, a, Nobody)),
          Refuse(SettleIx(Outsider, a, Seller)),
          Payout(SettleIx(Buyer, a, Seller), 25, "Settled"),
          RequireEmptyVault(a),
          Refuse(SettleIx(Buyer, a, Seller)),
          Refuse(RefundIx(Seller, a, Buyer)),
          Finish(a)>>

ScenarioOrdinaryEscrow == OrdinaryFunded \o OrdinarySettled

ScenarioCancel ==
    LET a == "cancel"
    IN  <<Open(a, "Escrow", Seller, 11),
          Refuse(CancelIx(Seller, a)),
          ValueStep(CancelIx(Buyer, a), Nothing, [state |-> "Cancelled"]),
          RequireEmptyVault(a),
          Refuse(FundIx(a)),
          Finish(a)>>

ScenarioRefund ==
    LET a == "refund"
    IN  <<Open(a, "Escrow", Seller, 13),
          Funding(a, 13),
          Refuse(RefundIx(Buyer, a, Buyer)),
          Refuse(RefundIx(Seller, a, Seller)),
          Payout(RefundIx(Seller, a, Buyer), 13, "Refunded"),
          RequireEmptyVault(a),
          Refuse(RefundIx(Seller, a, Buyer)),
          Finish(a)>>
-----------------------------------------------------------------------------
(* Phase 7: the conceder gives up its claim to the other party. *)
DisputeOpened(a, opener, viaCompleted) ==
    <<Open(a, "Escrow", Seller, 17), Funding(a, 17)>>
    \o (IF viaCompleted THEN <<Completion(a)>> ELSE <<>>)
    \o <<Refuse(OpenDisputeIx(Outsider, a)),
         ValueStep(OpenDisputeIx(opener, a), Nothing, [state |-> "Disputed"])>>

DisputeConceded(a, conceder, beneficiary, state) ==
    <<Refuse(ResolveDisputeIx(conceder, a, conceder)),
      Refuse(ResolveDisputeIx(Outsider, a, beneficiary)),
      Refuse(ResolveDisputeIx(conceder, a, Outsider)),
      Refuse(ResolveDisputeIx(conceder, a, Nobody)),
      Payout(ResolveDisputeIx(conceder, a, beneficiary), 17, state),
      RequireEmptyVault(a),
      Refuse(ResolveDisputeIx(conceder, a, beneficiary)),
      Finish(a)>>

ScenarioDispute(a, conceder, other, state, viaCompleted) ==
    DisputeOpened(a, other, viaCompleted) \o DisputeConceded(a, conceder, other, state)
-----------------------------------------------------------------------------
(* Phase 8: two tranches of one escrow. *)
MilestoneUpdate(name, by, i, state) ==
    StateStep(UpdateMilestoneIx(name, by, "milestones", i), [state |-> state])

MilestoneSchedule ==
    LET a == "milestones"
    IN  <<Open(a, "MilestoneContract", Seller, 100),
          ValueStep(CreateMilestoneIx(a, 0, 40), Nothing, [state |-> "Open"]),
          ValueStep(CreateMilestoneIx(a, 1, 60), Nothing,
                    [state |-> "Open", milestoneTotal |-> 100]),
          Refuse(CreateMilestoneIx(a, 2, 1)),
          Funding(a, 100)>>

MilestoneFirst ==
    LET a == "milestones"
        release == SettleMilestoneIx(Seller, a, 0, Seller)
    IN  <<Refuse(release),
          MilestoneUpdate("submit_milestone", Seller, 0, "Submitted"),
          Refuse(release),
          Refuse(UpdateMilestoneIx("approve_milestone", Seller, a, 0)),
          MilestoneUpdate("approve_milestone", Buyer, 0, "Approved"),
          Payout(release, 40, "Funded"),
          Refuse(release)>>

MilestoneSecond ==
    LET a == "milestones"
    IN  <<MilestoneUpdate("submit_milestone", Seller, 1, "Submitted"),
          MilestoneUpdate("reject_milestone", Buyer, 1, "Pending"),
          MilestoneUpdate("submit_milestone", Seller, 1, "Submitted"),
          MilestoneUpdate("approve_milestone", Buyer, 1, "Approved"),
          Refuse(Foreign(SettleMilestoneIx(Seller, a, 0, Seller), "foreign-milestone-source")),
          Refuse(SettleMilestoneIx(Seller, a, 1, Buyer)),
          Payout(SettleMilestoneIx(Buyer, a, 1, Seller), 60, "Settled"),
          RequireEmptyVault(a),
          Refuse(SettleMilestoneIx(Seller, a, 1, Seller)),
          Finish(a)>>

ScenarioMilestones == MilestoneSchedule \o MilestoneFirst \o MilestoneSecond
-----------------------------------------------------------------------------
(* Phase 9: the winner is named once. *)
BountySelection ==
    LET a == "bounty"
    IN  <<[Open(a, "Bounty", Nobody, 21) EXCEPT
                !.expect = [state |-> "Open", counterparty |-> Nobody]],
          Refuse(SelectCounterpartyIx(Buyer, a, Buyer)),
          Refuse(SelectCounterpartyIx(Buyer, a, Nobody)),
          Refuse(SelectCounterpartyIx(Outsider, a, Seller)),
          ValueStep(SelectCounterpartyIx(Buyer, a, Seller), Nothing,
                    [state |-> "Open", counterparty |-> Seller]),
          Refuse(SelectCounterpartyIx(Buyer, a, Outsider))>>

BountySettlement ==
    LET a == "bounty"
    IN  <<Funding(a, 21),
          Refuse(SelectCounterpartyIx(Buyer, a, Outsider)),
          Completion(a),
          Refuse(SettleIx(Buyer, a, Outsider)),
          Payout(SettleIx(Buyer, a, Seller), 21, "Settled"),
          RequireEmptyVault(a),
          Finish(a)>>

ScenarioBounty == BountySelection \o BountySettlement
-----------------------------------------------------------------------------
(* Phase 10: evidence, and a proof of another agreement to refuse. *)
SubmitProofStep(a, i) == StateStep(SubmitProofIx(a, i), [submitter |-> Seller])
DecideProofStep(name, i, status) ==
    StateStep(DecideProofIx(name, Buyer, "proofs", i), [status |-> status])

ProofDecisions ==
    LET a == "proofs"
    IN  <<Open(a, "Escrow", Seller, 9),
          Funding(a, 9),
          SubmitProofStep(a, 0),
          Refuse(DecideProofIx("approve_proof", Seller, a, 0)),
          Refuse(DecideProofIx("approve_proof", Outsider, a, 0)),
          DecideProofStep("approve_proof", 0, "Approved"),
          Refuse(DecideProofIx("reject_proof", Buyer, a, 0)),
          SubmitProofStep(a, 1),
          DecideProofStep("reject_proof", 1, "Rejected")>>

ForeignProofOpened ==
    LET a == "foreign-proof-source"
    IN  <<Open(a, "Escrow", Seller, 3), Funding(a, 3), SubmitProofStep(a, 0)>>

ForeignProofUsed ==
    LET a == "foreign-proof-source"
    IN  <<Refuse(Foreign(DecideProofIx("approve_proof", Buyer, "proofs", 0), a)),
          Payout(RefundIx(Seller, a, Buyer), 3, "Refunded"),
          RequireEmptyVault(a)>>

ProofSettlement ==
    LET a == "proofs"
        settle == SettleIx(Buyer, a, Seller)
    IN  <<Completion(a),
          Refuse(Citing(settle, a, 1)),
          ValueStep(Citing(settle, a, 0), Moves(a, Seller, 9),
                    [state |-> "Settled", settlementProof |-> <<a, 0>>]),
          RequireEmptyVault(a),
          Finish(a)>>

ScenarioProofs == ProofDecisions \o ForeignProofOpened \o ForeignProofUsed \o ProofSettlement
-----------------------------------------------------------------------------
(* The run. *)
ForeignMilestoneOpened ==
    LET a == "foreign-milestone-source"
    IN  <<Open(a, "MilestoneContract", Seller, 5), Send(CreateMilestoneIx(a, 0, 5))>>

\* Before the proofs, which the fixture used to outlive.
Matrix ==
    ScenarioOrdinaryEscrow \o ScenarioCancel \o ScenarioRefund
    \o ScenarioDispute("disputeToSeller", Buyer, Seller, "Settled", FALSE)
    \o ScenarioDispute("disputeToBuyer", Seller, Buyer, "Refunded", TRUE)
    \o ScenarioMilestones \o ScenarioBounty

\* Broken: the foreign proof fixture is opened at the top of the run, as it once was.
Script_EarlyFixture ==
    ForeignMilestoneOpened \o ForeignProofOpened \o Matrix
    \o ProofDecisions \o ForeignProofUsed \o ProofSettlement
    \o <<Send(CancelIx(Buyer, "foreign-milestone-source"))>>

Script ==
    ForeignMilestoneOpened \o Matrix \o ScenarioProofs
    \o <<Send(CancelIx(Buyer, "foreign-milestone-source"))>>
=============================================================================
