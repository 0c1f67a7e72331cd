----------------------------- MODULE PpvEscrow -----------------------------
(***************************************************************************)
(* ppv_escrow: custody between two parties, composed with ppv_core (its    *)
(* evidence is committed there over a CPI, and anybody may call ppv_core   *)
(* directly) and with the SPL token program (anybody may transfer tokens   *)
(* into a vault).  An instruction is atomic: it takes effect as a whole or *)
(* not at all, so a failed require is a disabled action.                   *)
(*                                                                         *)
(* Accounts whose address is derived from an agreement (vault, vault       *)
(* authority, milestone i, proof i) are functions of it.  One mint, one    *)
(* token account per owner.  Timestamps are left out.                      *)
(***************************************************************************)
EXTENDS PpvCore

CONSTANTS
    Agreements,     \* the <creator, agreement_id> PDAs
    CreatorOf,      \* the creator in each agreement's seeds
    Default,        \* Pubkey::default(): nobody, or an absent account
    Amounts,        \* the u64 values a client passes
    Donors,         \* the wallets considered to transfer into vaults directly
    CoreCallers,    \* the wallets considered to call ppv_core directly
    StartingBalance,\* what each wallet's token account holds at first
    MaxMilestones,  \* stands for the u32 limit of milestone_count
    MaxProofs       \* stands for the u32 limit of proof_count

MilestoneSlots == 0 .. MaxMilestones - 1
ProofSlots == 0 .. MaxProofs - 1

\* core_proof_id: a hash of its arguments, taken to be collision-free.
CoreProofId(a, i) == <<a, i>>

CoreProofAddress(submitter, a, i) == <<submitter, CoreProofId(a, i)>>

ASSUME CreatorAssumption == CreatorOf \in [Agreements -> Wallets]
ASSUME DefaultAssumption ==
    Default \notin Wallets \cup Addresses \cup (Agreements \X ProofSlots)
ASSUME AmountAssumption == Amounts \subseteq Nat /\ StartingBalance \in Nat
ASSUME CallerAssumption == Donors \subseteq Wallets /\ CoreCallers \subseteq Wallets
ASSUME LimitAssumption == MaxMilestones \in Nat /\ MaxProofs \in Nat
ASSUME CoreProofIdAssumption ==
    \A a \in Agreements, i \in ProofSlots : CoreProofId(a, i) \in ProofIds

VARIABLES
    agreement,  \* the EscrowAgreement accounts
    milestone,  \* milestone[a][i]: the Milestone accounts
    proof,      \* proof[a][i]: the Proof accounts
    balance,    \* the token account of each wallet, and of the default address
    vault       \* the token balance of each agreement's vault

vars == <<record, agreement, milestone, proof, balance, vault>>

AgreementType ==
    {"Escrow", "Invoice", "Contract", "MilestoneContract", "Bounty", "ProofOnly"}
SupportedTypes == {"Escrow", "MilestoneContract", "Bounty"}
LiveStates == {"Funded", "Completed", "Disputed"}
TerminalStates == {"Settled", "Cancelled", "Refunded"}
AgreementState == {"Open"} \cup LiveStates \cup TerminalStates
MilestoneState == {"Pending", "Submitted", "Approved", "Settled"}
EvidenceStatus == {"Submitted", "Approved", "Rejected"}

\* What an Option<Proof> argument and the settlement_proof fields may name.
Citations == (Agreements \X ProofSlots) \cup {Default}

NewAgreement(type, counterparty, amount) ==
    [state |-> "Open", type |-> type, counterparty |-> counterparty,
     amount |-> amount, settledTotal |-> 0, milestoneCount |-> 0,
     milestonesSettled |-> 0, milestoneTotal |-> 0, proofCount |-> 0,
     settlementProof |-> Default, disputeOpenedBy |-> Default]
AbsentAgreement ==
    [NewAgreement("Escrow", Default, 0) EXCEPT !.state = "Absent"]
AbsentMilestone == [state |-> "Absent", amount |-> 0, proof |-> Default]
AbsentProof == [submitter |-> Default, status |-> "Absent", decidedBy |-> Default]

EscrowInit ==
    /\ agreement = [a \in Agreements |-> AbsentAgreement]
    /\ milestone = [a \in Agreements |-> [i \in MilestoneSlots |-> AbsentMilestone]]
    /\ proof = [a \in Agreements |-> [i \in ProofSlots |-> AbsentProof]]
    /\ balance = [w \in Wallets \cup {Default} |->
                    IF w = Default THEN 0 ELSE StartingBalance]
    /\ vault = [a \in Agreements |-> 0]

Init == CoreInit /\ EscrowInit
-----------------------------------------------------------------------------
(* The EscrowAgreement account's own rules: each require_* as a predicate. *)
State(a) == agreement[a].state
HasCounterparty(a) == agreement[a].counterparty # Default
IsMilestoneContract(a) == agreement[a].type = "MilestoneContract"
IsLive(a) == State(a) \in LiveStates
IsTerminal(a) == State(a) \in TerminalStates

\* Broken: any wallet passes for a party.
IsParty_AnyWallet(a, w) == w # Default

\* The default address is nobody, also while it stands in `counterparty`.
IsParty(a, w) ==
    /\ w # Default
    /\ w \in {CreatorOf[a], agreement[a].counterparty}

\* saturating_sub
Remaining(a) ==
    IF agreement[a].settledTotal <= agreement[a].amount
    THEN agreement[a].amount - agreement[a].settledTotal
    ELSE 0

\* Broken: the sponsor may choose again.
CounterpartyAssignable_Again(a, w) ==
    /\ w = CreatorOf[a]
    /\ agreement[a].type = "Bounty"
    /\ State(a) \in {"Open", "Funded"}

CounterpartyAssignable(a, w) ==
    /\ w = CreatorOf[a]
    /\ agreement[a].type = "Bounty"
    /\ ~HasCounterparty(a)
    /\ State(a) \in {"Open", "Funded"}

Fundable(a, w) == w = CreatorOf[a] /\ State(a) = "Open"

Completable(a, w) ==
    /\ HasCounterparty(a)
    /\ w = agreement[a].counterparty
    /\ State(a) = "Funded"
    /\ ~IsMilestoneContract(a)

Settleable(a, w) == HasCounterparty(a) /\ IsParty(a, w) /\ State(a) = "Completed"

MilestoneCreatable(a, w) ==
    w = CreatorOf[a] /\ IsMilestoneContract(a) /\ State(a) = "Open"

\* Broken: tranches keep moving in a dispute.
MilestoneActive_Live(a) == IsMilestoneContract(a) /\ IsLive(a)

MilestoneActive(a) == IsMilestoneContract(a) /\ State(a) = "Funded"

Cancellable(a, w) == w = CreatorOf[a] /\ State(a) = "Open"

\* Broken: the sponsor disputes an unclaimed bounty.
Disputable_Unclaimed(a, w) == IsParty(a, w) /\ State(a) \in {"Funded", "Completed"}

Disputable(a, w) ==
    HasCounterparty(a) /\ IsParty(a, w) /\ State(a) \in {"Funded", "Completed"}

\* Resolution by concession: the signer gives up its own claim.
Resolvable(a, w, beneficiary) ==
    /\ HasCounterparty(a)
    /\ State(a) = "Disputed"
    /\ IsParty(a, w)
    /\ IsParty(a, beneficiary)
    /\ w # beneficiary

Refundable(a, w) ==
    /\ HasCounterparty(a)
    /\ w = agreement[a].counterparty
    /\ State(a) \in {"Funded", "Completed"}

ProofSubmittable(a, w) == IsParty(a, w) /\ IsLive(a)
-----------------------------------------------------------------------------
(* The rules of the Proof account, and what a citation must show. *)

\* Broken: the submitter decides.
Decidable_Own(a, i, w) ==
    IsParty(a, w) /\ IsLive(a) /\ proof[a][i].status = "Submitted"

\* Broken: a decision may be made again.
Decidable_Again(a, i, w) ==
    /\ IsParty(a, w)
    /\ IsLive(a)
    /\ w # proof[a][i].submitter
    /\ proof[a][i].status # "Absent"

\* A decision is made once, by the party that did not submit.
Decidable(a, i, w) ==
    /\ IsParty(a, w)
    /\ IsLive(a)
    /\ w # proof[a][i].submitter
    /\ proof[a][i].status = "Submitted"

\* Broken: the core record's status is not consulted.
LiveCoreCommitment_Revoked(a, i, core) ==
    core = CoreProofAddress(proof[a][i].submitter, a, i)

\* The core record is the one the submitter committed for this index, and stands.
LiveCoreCommitment(a, i, core) ==
    /\ core = CoreProofAddress(proof[a][i].submitter, a, i)
    /\ record[core].status = "Active"

\* Broken: another agreement's evidence is accepted.
CitedProofValid_AnyAgreement(a, cited, core) ==
    \/ cited = Default /\ core = Default
    \/ \E b \in Agreements, i \in ProofSlots :
        /\ cited = <<b, i>>
        /\ proof[b][i].status = "Approved"
        /\ LiveCoreCommitment(b, i, core)

\* A citation and the core record come together or not at all.
CitedProofValid(a, cited, core) ==
    \/ cited = Default /\ core = Default
    \/ \E i \in ProofSlots :
        /\ cited = <<a, i>>
        /\ proof[a][i].status = "Approved"
        /\ LiveCoreCommitment(a, i, core)

\* The accounts as a handler leaves them, serialised when the instruction succeeds.
WriteBack(a, account) == agreement' = [agreement EXCEPT ![a] = account]
WriteMilestone(a, i, account) ==
    milestone' = [milestone EXCEPT ![a] = [@ EXCEPT ![i] = account]]
WriteProof(a, i, account) == proof' = [proof EXCEPT ![a] = [@ EXCEPT ![i] = account]]
-----------------------------------------------------------------------------
(* Custody out: the one way money leaves a vault, and what is then recorded. *)

\* Broken: empties the vault; pays from whichever vault was passed in.
PayOutOfVault_All(a, destination, amount) ==
    /\ amount <= vault[a]
    /\ vault' = [vault EXCEPT ![a] = 0]
    /\ balance' = [balance EXCEPT ![destination] = @ + vault[a]]
PayOutOfVault_AnyVault(a, destination, amount) ==
    \E b \in Agreements :
        /\ amount <= vault[b]
        /\ vault' = [vault EXCEPT ![b] = @ - amount]
        /\ balance' = [balance EXCEPT ![destination] = @ + amount]

PayOutOfVault(a, destination, amount) ==
    /\ amount <= vault[a]
    /\ vault' = [vault EXCEPT ![a] = @ - amount]
    /\ balance' = [balance EXCEPT ![destination] = @ + amount]

\* record_payout refuses to account for more than the agreement's amount.
PayoutFits(a, paid) == agreement[a].settledTotal + paid <= agreement[a].amount

\* Pay everything that is left and end the agreement in `state`.
CloseOut(a, destination, state, cited) ==
    /\ PayOutOfVault(a, destination, Remaining(a))
    /\ PayoutFits(a, Remaining(a))
    /\ WriteBack(a, [agreement[a] EXCEPT
            !.settledTotal = @ + Remaining(a),
            !.state = state,
            !.settlementProof = cited])
    /\ UNCHANGED <<record, milestone, proof>>
-----------------------------------------------------------------------------
(* Opening, funding, abandoning. *)
InitializeAgreement(creator, a, counterparty, type, amount, terms) ==
    /\ creator = CreatorOf[a]
    /\ State(a) = "Absent"
    /\ counterparty # Default \/ type = "Bounty"
    /\ counterparty # creator
    /\ amount > 0
    /\ NonZero(terms)
    /\ type \in SupportedTypes
    /\ WriteBack(a, NewAgreement(type, counterparty, amount))
    /\ UNCHANGED <<record, milestone, proof, balance, vault>>

SelectCounterparty(signer, a, winner) ==
    /\ CounterpartyAssignable(a, signer)
    /\ winner \notin {Default, CreatorOf[a]}
    /\ WriteBack(a, [agreement[a] EXCEPT !.counterparty = winner])
    /\ UNCHANGED <<record, milestone, proof, balance, vault>>

\* The tokens come from an account of the signer, and what the vault is credited
\* is measured before the state is written.
TransferIn(signer, a, amount) ==
    /\ amount <= balance[signer]
    /\ balance' = [balance EXCEPT ![signer] = @ - amount]
    /\ vault' = [vault EXCEPT ![a] = @ + amount]

\* Broken: an incomplete schedule is funded.
Fund_Unscheduled(signer, a) ==
    /\ Fundable(a, signer)
    /\ TransferIn(signer, a, agreement[a].amount)
    /\ WriteBack(a, [agreement[a] EXCEPT !.state = "Funded"])
    /\ UNCHANGED <<record, milestone, proof>>

Fund(signer, a) ==
    /\ Fundable(a, signer)
    /\ IsMilestoneContract(a) => agreement[a].milestoneTotal = agreement[a].amount
    /\ TransferIn(signer, a, agreement[a].amount)
    /\ WriteBack(a, [agreement[a] EXCEPT !.state = "Funded"])
    /\ UNCHANGED <<record, milestone, proof>>

Cancel(signer, a) ==
    /\ Cancellable(a, signer)
    /\ WriteBack(a, [agreement[a] EXCEPT !.state = "Cancelled"])
    /\ UNCHANGED <<record, milestone, proof, balance, vault>>
-----------------------------------------------------------------------------
(* The single payment at the end, and giving the money back. *)
MarkCompleted(signer, a) ==
    /\ Completable(a, signer)
    /\ WriteBack(a, [agreement[a] EXCEPT !.state = "Completed"])
    /\ UNCHANGED <<record, milestone, proof, balance, vault>>

Settle(signer, a, destination, cited, core) ==
    /\ Settleable(a, signer)
    /\ destination = agreement[a].counterparty
    /\ CitedProofValid(a, cited, core)
    /\ CloseOut(a, destination, "Settled", cited)

Refund(signer, a, destination) ==
    /\ Refundable(a, signer)
    /\ destination = CreatorOf[a]
    /\ CloseOut(a, destination, "Refunded", agreement[a].settlementProof)
-----------------------------------------------------------------------------
(* Disputes. *)
OpenDispute(signer, a, reason) ==
    /\ Disputable(a, signer)
    /\ NonZero(reason)
    /\ WriteBack(a, [agreement[a] EXCEPT !.state = "Disputed",
                                         !.disputeOpenedBy = signer])
    /\ UNCHANGED <<record, milestone, proof, balance, vault>>

\* The owner of the destination account decides the outcome.
ResolveDispute(signer, a, beneficiary) ==
    /\ Resolvable(a, signer, beneficiary)
    /\ CloseOut(a, beneficiary,
                IF beneficiary = agreement[a].counterparty THEN "Settled" ELSE "Refunded",
                agreement[a].settlementProof)
-----------------------------------------------------------------------------
(* Milestones: a schedule fixed before funding, paid tranche by tranche. *)
CreateMilestone(signer, a, amount, terms) ==
    LET index == agreement[a].milestoneCount
        total == agreement[a].milestoneTotal + amount
    IN  /\ MilestoneCreatable(a, signer)
        /\ amount > 0
        /\ NonZero(terms)
        /\ index < MaxMilestones
        /\ total <= agreement[a].amount
        /\ WriteBack(a, [agreement[a] EXCEPT !.milestoneCount = index + 1,
                                             !.milestoneTotal = total])
        /\ WriteMilestone(a, index,
                [state |-> "Pending", amount |-> amount, proof |-> Default])
        /\ UNCHANGED <<record, proof, balance, vault>>

\* submit, approve and reject move one milestone and nothing else.
MoveMilestone(a, i, from, to) ==
    /\ MilestoneActive(a)
    /\ milestone[a][i].state = from
    /\ WriteMilestone(a, i, [milestone[a][i] EXCEPT !.state = to])
    /\ UNCHANGED <<record, agreement, proof, balance, vault>>

SubmitMilestone(signer, a, i) ==
    signer = agreement[a].counterparty /\ MoveMilestone(a, i, "Pending", "Submitted")

ApproveMilestone(signer, a, i) ==
    signer = CreatorOf[a] /\ MoveMilestone(a, i, "Submitted", "Approved")

\* Broken: to a state of its own; from any state.
RejectMilestone_Rejected(signer, a, i) ==
    signer = CreatorOf[a] /\ MoveMilestone(a, i, "Submitted", "Rejected")
RejectMilestone_AnyState(signer, a, i) ==
    signer = CreatorOf[a] /\ MoveMilestone(a, i, milestone[a][i].state, "Pending")

\* Back to Pending, so that the seller can try again.
RejectMilestone(signer, a, i) ==
    signer = CreatorOf[a] /\ MoveMilestone(a, i, "Submitted", "Pending")

\* The tranche is paid out of the agreement's one vault; the last one ends the
\* agreement.
SettleMilestone(signer, a, i, destination, cited, core) ==
    LET amount   == milestone[a][i].amount
        settled  == agreement[a].milestonesSettled + 1
        finished == settled = agreement[a].milestoneCount
    IN  /\ MilestoneActive(a)
        /\ IsParty(a, signer)
        /\ milestone[a][i].state = "Approved"
        /\ destination = agreement[a].counterparty
        /\ CitedProofValid(a, cited, core)
        /\ amount <= Remaining(a)
        /\ PayOutOfVault(a, destination, amount)
        /\ PayoutFits(a, amount)
        /\ WriteMilestone(a, i, [milestone[a][i] EXCEPT !.state = "Settled", !.proof = cited])
        /\ WriteBack(a, [agreement[a] EXCEPT
                !.settledTotal = @ + amount,
                !.milestonesSettled = settled,
                !.state = IF finished THEN "Settled" ELSE @,
                !.settlementProof = IF finished THEN cited ELSE @])
        /\ UNCHANGED <<record, proof>>
-----------------------------------------------------------------------------
(* Evidence: committed in ppv_core by the submitter, decided by the other party. *)
SubmitProof(signer, a, content) ==
    LET index == agreement[a].proofCount
    IN  /\ ProofSubmittable(a, signer)
        /\ index < MaxProofs
        /\ CreateProof(signer, CoreProofId(a, index), content)
        /\ WriteBack(a, [agreement[a] EXCEPT !.proofCount = index + 1])
        /\ WriteProof(a, index,
                [submitter |-> signer, status |-> "Submitted", decidedBy |-> Default])
        /\ UNCHANGED <<milestone, balance, vault>>

DecideProof(signer, a, i, decision) ==
    /\ Decidable(a, i, signer)
    /\ WriteProof(a, i, [proof[a][i] EXCEPT !.status = decision, !.decidedBy = signer])
    /\ UNCHANGED <<record, agreement, milestone, balance, vault>>

ApproveProof(signer, a, i) == DecideProof(signer, a, i, "Approved")
RejectProof(signer, a, i) == DecideProof(signer, a, i, "Rejected")
-----------------------------------------------------------------------------
(* What happens around the program. *)
\* A token account accepts a transfer from anyone; no PPV program runs.
Donate(from, a, amount) ==
    /\ State(a) # "Absent"
    /\ amount > 0
    /\ amount <= balance[from]
    /\ balance' = [balance EXCEPT ![from] = @ - amount]
    /\ vault' = [vault EXCEPT ![a] = @ + amount]
    /\ UNCHANGED <<record, agreement, milestone, proof>>

\* ppv_core called directly.
CoreStep ==
    /\ \E w \in CoreCallers : CoreCall(w)
    /\ UNCHANGED <<agreement, milestone, proof, balance, vault>>

\* Arguments are tried where the guard that does not look at them holds.
Lifecycle(w, a) ==
    \/ /\ State(a) = "Absent"
       /\ \E p \in Wallets \cup {Default}, t \in AgreementType, n \in Amounts, h \in Hashes :
            InitializeAgreement(w, a, p, t, n, h)
    \/ \E p \in Wallets \cup {Default} : SelectCounterparty(w, a, p)
    \/ Fund(w, a)
    \/ Cancel(w, a)
    \/ MarkCompleted(w, a)
    \/ /\ Settleable(a, w)
       /\ \E d \in Wallets \cup {Default}, c \in Citations, r \in Addresses \cup {Default} :
            Settle(w, a, d, c, r)
    \/ \E d \in Wallets \cup {Default} : Refund(w, a, d)
    \/ \E h \in Hashes : OpenDispute(w, a, h)
    \/ \E d \in Wallets \cup {Default} : ResolveDispute(w, a, d)

Tranche(w, a) ==
    \/ \E n \in Amounts, h \in Hashes : CreateMilestone(w, a, n, h)
    \/ \E i \in MilestoneSlots :
        \/ SubmitMilestone(w, a, i)
        \/ ApproveMilestone(w, a, i)
        \/ RejectMilestone(w, a, i)
        \/ /\ milestone[a][i].state = "Approved"
           /\ \E d \in Wallets \cup {Default}, c \in Citations, r \in Addresses \cup {Default} :
                SettleMilestone(w, a, i, d, c, r)

Evidence(w, a) ==
    \/ \E h \in Hashes : SubmitProof(w, a, h)
    \/ \E i \in ProofSlots : ApproveProof(w, a, i) \/ RejectProof(w, a, i)

EscrowNext ==
    \E w \in Wallets, a \in Agreements :
        \/ Lifecycle(w, a)
        \/ Tranche(w, a)
        \/ Evidence(w, a)
        \/ w \in Donors /\ \E n \in Amounts : Donate(w, a, n)

Next == EscrowNext \/ CoreStep

Spec == Init /\ [][Next]_vars
=============================================================================
