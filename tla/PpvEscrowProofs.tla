-------------------------- MODULE PpvEscrowProofs --------------------------
(***************************************************************************)
(* ppv_escrow is well typed, for any number of wallets, agreements,        *)
(* milestones, proofs and tokens; and its steps field by field: one        *)
(* predicate for each way an instruction can change the accounts, what     *)
(* each instruction does, and the lemma that there is no other step.  The  *)
(* proofs about invariants, single steps, the refinement and the history   *)
(* all go by these cases.                                                  *)
(***************************************************************************)
EXTENDS PpvEscrowSafety, TLAPS

Owners == Wallets \cup {Default}

\* An agreement account that is written back with well-typed fields is well typed.
LEMMA AgreementWrite ==
    ASSUME TypeOK, NEW a \in Agreements, NEW r \in AgreementRecords,
           WriteBack(a, r)
    PROVE  agreement' \in [Agreements -> AgreementRecords]
  BY DEF TypeOK, WriteBack

\* What PayOutOfVault does keeps both sides of the payment in Nat.
LEMMA PayOutTypes ==
    ASSUME TypeOK, NEW a \in Agreements, NEW d \in Owners, NEW n \in Nat,
           PayOutOfVault(a, d, n)
    PROVE  /\ balance' \in [Owners -> Nat]
           /\ vault' \in [Agreements -> Nat]
  <1>1. vault[a] \in Nat /\ balance[d] \in Nat /\ n <= vault[a]
    BY DEF TypeOK, Owners, PayOutOfVault
  <1>2. vault[a] - n \in Nat /\ balance[d] + n \in Nat
    BY <1>1
  <1> QED
    BY <1>2 DEF TypeOK, Owners, PayOutOfVault

LEMMA RemainingIsNat ==
    ASSUME TypeOK, NEW a \in Agreements
    PROVE  Remaining(a) \in Nat
  BY DEF TypeOK, Remaining, AgreementRecords

LEMMA AccountType ==
    ASSUME TypeOK, NEW a \in Agreements
    PROVE  agreement[a] \in AgreementRecords
  BY DEF TypeOK

\* The three ways to end an agreement by paying all that is left.
LEMMA CloseOutTypes ==
    ASSUME TypeOK, NEW a \in Agreements, NEW d \in Owners,
           NEW s \in AgreementState, NEW c \in Citations, CloseOut(a, d, s, c)
    PROVE  TypeOK'
  <1>1. Remaining(a) \in Nat /\ agreement[a] \in AgreementRecords
    BY RemainingIsNat, AccountType
  <1>2. balance' \in [Owners -> Nat] /\ vault' \in [Agreements -> Nat]
    BY <1>1, PayOutTypes DEF CloseOut
  <1> DEFINE after == [agreement[a] EXCEPT
                !.settledTotal = agreement[a].settledTotal + Remaining(a),
                !.state = s, !.settlementProof = c]
  <1>3. agreement[a].settledTotal + Remaining(a) \in Nat
    BY <1>1 DEF AgreementRecords
  <1>4. after \in AgreementRecords
    BY <1>1, <1>3 DEF AgreementRecords
  <1>5. WriteBack(a, after)
    BY DEF CloseOut
  <1>6. agreement' \in [Agreements -> AgreementRecords]
    BY <1>4, <1>5, AgreementWrite
  <1> QED
    BY <1>2, <1>6 DEF TypeOK, CoreTypeOK, CloseOut, Owners

\* What each kind of write must keep, given that the other accounts are untouched.
LEMMA AgreementOnly ==
    ASSUME TypeOK, NEW a \in Agreements, NEW r \in AgreementRecords,
           WriteBack(a, r), UNCHANGED <<record, milestone, proof, balance, vault>>
    PROVE  TypeOK'
  <1>1. agreement' \in [Agreements -> AgreementRecords]
    BY AgreementWrite
  <1> QED
    BY <1>1 DEF TypeOK, CoreTypeOK

LEMMA MilestoneWrite ==
    ASSUME TypeOK, NEW a \in Agreements, NEW i \in MilestoneSlots,
           NEW r \in MilestoneRecords, WriteMilestone(a, i, r)
    PROVE  milestone' \in [Agreements -> [MilestoneSlots -> MilestoneRecords]]
  BY DEF TypeOK, WriteMilestone

LEMMA ProofWrite ==
    ASSUME TypeOK, NEW a \in Agreements, NEW i \in ProofSlots,
           NEW r \in ProofRecords, WriteProof(a, i, r)
    PROVE  proof' \in [Agreements -> [ProofSlots -> ProofRecords]]
  BY DEF TypeOK, WriteProof

LEMMA CreateProofTypes ==
    ASSUME TypeOK, NEW w, NEW id, NEW h \in Hashes, CreateProof(w, id, h)
    PROVE  CoreTypeOK'
  <1>1. record \in [Addresses -> Records]
    BY DEF TypeOK, CoreTypeOK
  <1>2. [status |-> "Active", content |-> h] \in Records
    BY DEF CreateProof, NonZero, Records, ProofStatus
  <1> QED
    BY <1>1, <1>2 DEF CreateProof, CoreTypeOK
-----------------------------------------------------------------------------
(* Type correctness. *)

LEMMA LifecycleTypes ==
    ASSUME TypeOK, NEW w \in Wallets, NEW a \in Agreements, Lifecycle(w, a)
    PROVE  TypeOK'
  <1> USE DefaultAssumption, AmountAssumption
  <1>r. agreement[a] \in AgreementRecords
    BY AccountType
  <1>1. CASE \E p \in Owners, t \in AgreementType, n \in Amounts, h \in Hashes :
                InitializeAgreement(w, a, p, t, n, h)
    <2>1. PICK p \in Owners, t \in AgreementType, n \in Amounts, h \in Hashes :
                InitializeAgreement(w, a, p, t, n, h)
      BY <1>1
    <2>2. NewAgreement(t, p, n) \in AgreementRecords
      BY LimitAssumption
      DEF NewAgreement, AgreementRecords, AgreementState, Owners, Citations
    <2> QED
      BY <2>1, <2>2, AgreementOnly DEF InitializeAgreement
  <1>2. CASE \E p \in Owners : SelectCounterparty(w, a, p)
    <2>1. PICK p \in Owners : SelectCounterparty(w, a, p)
      BY <1>2
    <2>2. [agreement[a] EXCEPT !.counterparty = p] \in AgreementRecords
      BY <1>r DEF AgreementRecords, Owners
    <2> QED
      BY <2>1, <2>2, AgreementOnly DEF SelectCounterparty
  <1>3. CASE Fund(w, a)
    <2>1. agreement[a].amount \in Nat
      BY <1>r DEF AgreementRecords
    <2>2. balance' \in [Owners -> Nat] /\ vault' \in [Agreements -> Nat]
      BY <1>3, <2>1 DEF Fund, TransferIn, TypeOK, Owners
    <2>3. [agreement[a] EXCEPT !.state = "Funded"] \in AgreementRecords
      BY <1>r DEF AgreementRecords, AgreementState, LiveStates
    <2>4. agreement' \in [Agreements -> AgreementRecords]
      BY <1>3, <2>3, AgreementWrite DEF Fund
    <2> QED
      BY <1>3, <2>2, <2>4 DEF Fund, TypeOK, CoreTypeOK, Owners
  <1>4. CASE Cancel(w, a)
    <2>1. [agreement[a] EXCEPT !.state = "Cancelled"] \in AgreementRecords
      BY <1>r DEF AgreementRecords, AgreementState, TerminalStates
    <2> QED
      BY <1>4, <2>1, AgreementOnly DEF Cancel
  <1>5. CASE MarkCompleted(w, a)
    <2>1. [agreement[a] EXCEPT !.state = "Completed"] \in AgreementRecords
      BY <1>r DEF AgreementRecords, AgreementState, LiveStates
    <2> QED
      BY <1>5, <2>1, AgreementOnly DEF MarkCompleted
  <1>6. CASE \E d \in Owners, c \in Citations, r \in Addresses \cup {Default} :
                Settle(w, a, d, c, r)
    <2>1. PICK d \in Owners, c \in Citations, r \in Addresses \cup {Default} :
                Settle(w, a, d, c, r)
      BY <1>6
    <2>2. "Settled" \in AgreementState
      BY DEF AgreementState, TerminalStates
    <2> QED
      BY <2>1, <2>2, CloseOutTypes DEF Settle
  <1>7. CASE \E d \in Owners : Refund(w, a, d)
    <2>1. PICK d \in Owners : Refund(w, a, d)
      BY <1>7
    <2>2. "Refunded" \in AgreementState /\ agreement[a].settlementProof \in Citations
      BY <1>r DEF AgreementRecords, AgreementState, TerminalStates
    <2> QED
      BY <2>1, <2>2, CloseOutTypes DEF Refund
  <1>8. CASE \E h \in Hashes : OpenDispute(w, a, h)
    <2>1. [agreement[a] EXCEPT !.state = "Disputed", !.disputeOpenedBy = w]
                \in AgreementRecords
      BY <1>r DEF AgreementRecords, AgreementState, LiveStates
    <2> QED
      BY <1>8, <2>1, AgreementOnly DEF OpenDispute
  <1>9. CASE \E d \in Owners : ResolveDispute(w, a, d)
    <2>1. PICK d \in Owners : ResolveDispute(w, a, d)
      BY <1>9
    <2>2. agreement[a].settlementProof \in Citations
      BY <1>r DEF AgreementRecords
    <2>3. (IF d = agreement[a].counterparty THEN "Settled" ELSE "Refunded")
                \in AgreementState
      BY DEF AgreementState, TerminalStates
    <2> QED
      BY <2>1, <2>2, <2>3, CloseOutTypes DEF ResolveDispute
  <1> QED
    BY <1>1, <1>2, <1>3, <1>4, <1>5, <1>6, <1>7, <1>8, <1>9 DEF Lifecycle, Owners

LEMMA TrancheTypes ==
    ASSUME TypeOK, NEW w \in Wallets, NEW a \in Agreements, Tranche(w, a)
    PROVE  TypeOK'
  <1> USE AmountAssumption, LimitAssumption
  <1>r. agreement[a] \in AgreementRecords
    BY AccountType
  <1>1. CASE \E n \in Amounts, h \in Hashes : CreateMilestone(w, a, n, h)
    <2>1. PICK n \in Amounts, h \in Hashes : CreateMilestone(w, a, n, h)
      BY <1>1
    <2> DEFINE index == agreement[a].milestoneCount
               total == agreement[a].milestoneTotal + n
    <2>2. index \in MilestoneSlots /\ index + 1 \in 0 .. MaxMilestones /\ total \in Nat
      BY <1>r, <2>1 DEF AgreementRecords, MilestoneSlots, CreateMilestone
    <2>3. [agreement[a] EXCEPT !.milestoneCount = index + 1, !.milestoneTotal = total]
                \in AgreementRecords
      BY <1>r, <2>2 DEF AgreementRecords
    <2>4. agreement' \in [Agreements -> AgreementRecords]
      BY <2>1, <2>3, AgreementWrite DEF CreateMilestone
    <2>5. [state |-> "Pending", amount |-> n, proof |-> Default] \in MilestoneRecords
      BY DEF MilestoneRecords, MilestoneState, Citations
    <2>6. milestone' \in [Agreements -> [MilestoneSlots -> MilestoneRecords]]
      BY <2>1, <2>2, <2>5, MilestoneWrite DEF CreateMilestone
    <2> QED
      BY <2>1, <2>4, <2>6 DEF CreateMilestone, TypeOK, CoreTypeOK
  <1>2. ASSUME NEW i \in MilestoneSlots,
               \/ SubmitMilestone(w, a, i)
               \/ ApproveMilestone(w, a, i)
               \/ RejectMilestone(w, a, i)
        PROVE  TypeOK'
    <2>1. PICK from \in MilestoneState, to \in MilestoneState : MoveMilestone(a, i, from, to)
      BY <1>2 DEF SubmitMilestone, ApproveMilestone, RejectMilestone, MilestoneState
    <2>2. milestone[a][i] \in MilestoneRecords
      BY DEF TypeOK
    <2>3. [milestone[a][i] EXCEPT !.state = to] \in MilestoneRecords
      BY <2>2 DEF MilestoneRecords
    <2>4. milestone' \in [Agreements -> [MilestoneSlots -> MilestoneRecords]]
      BY <2>1, <2>3, MilestoneWrite DEF MoveMilestone
    <2> QED
      BY <2>1, <2>4 DEF MoveMilestone, TypeOK, CoreTypeOK
  <1>3. ASSUME NEW i \in MilestoneSlots, NEW d \in Owners, NEW c \in Citations,
               NEW r \in Addresses \cup {Default}, SettleMilestone(w, a, i, d, c, r)
        PROVE  TypeOK'
    <2> DEFINE amount == milestone[a][i].amount
               settled == agreement[a].milestonesSettled + 1
               finished == settled = agreement[a].milestoneCount
               state == IF finished THEN "Settled" ELSE agreement[a].state
               cited == IF finished THEN c ELSE agreement[a].settlementProof
               total == agreement[a].settledTotal + amount
    <2>1. milestone[a][i] \in MilestoneRecords
      BY DEF TypeOK
    <2>2. amount \in Nat
      BY <2>1 DEF MilestoneRecords
    <2>3. balance' \in [Owners -> Nat] /\ vault' \in [Agreements -> Nat]
      BY <1>3, <2>2, PayOutTypes DEF SettleMilestone
    <2>4. total \in Nat /\ settled \in Nat /\ cited \in Citations
      BY <1>r, <2>2 DEF AgreementRecords
    <2>5. state \in AgreementState \cup {"Absent"}
      BY <1>r DEF AgreementRecords, AgreementState, TerminalStates
    <2>6. [agreement[a] EXCEPT !.settledTotal = total, !.milestonesSettled = settled,
                               !.state = state, !.settlementProof = cited]
                \in AgreementRecords
      BY <1>r, <2>4, <2>5 DEF AgreementRecords
    <2>7. agreement' \in [Agreements -> AgreementRecords]
      BY <1>3, <2>6, AgreementWrite DEF SettleMilestone
    <2>8. [milestone[a][i] EXCEPT !.state = "Settled", !.proof = c] \in MilestoneRecords
      BY <2>1 DEF MilestoneRecords, MilestoneState
    <2>9. milestone' \in [Agreements -> [MilestoneSlots -> MilestoneRecords]]
      BY <1>3, <2>8, MilestoneWrite DEF SettleMilestone
    <2> QED
      BY <1>3, <2>3, <2>7, <2>9 DEF SettleMilestone, TypeOK, CoreTypeOK, Owners
  <1> QED
    BY <1>1, <1>2, <1>3 DEF Tranche, Owners

LEMMA EvidenceTypes ==
    ASSUME TypeOK, NEW w \in Wallets, NEW a \in Agreements, Evidence(w, a)
    PROVE  TypeOK'
  <1> USE LimitAssumption
  <1>r. agreement[a] \in AgreementRecords
    BY AccountType
  <1>1. CASE \E h \in Hashes : SubmitProof(w, a, h)
    <2>1. PICK h \in Hashes : SubmitProof(w, a, h)
      BY <1>1
    <2> DEFINE index == agreement[a].proofCount
    <2>2. index \in ProofSlots /\ index + 1 \in 0 .. MaxProofs
      BY <1>r, <2>1 DEF AgreementRecords, ProofSlots, SubmitProof
    <2>3. [agreement[a] EXCEPT !.proofCount = index + 1] \in AgreementRecords
      BY <1>r, <2>2 DEF AgreementRecords
    <2>4. agreement' \in [Agreements -> AgreementRecords]
      BY <2>1, <2>3, AgreementWrite DEF SubmitProof
    <2>5. [submitter |-> w, status |-> "Submitted", decidedBy |-> Default] \in ProofRecords
      BY DEF ProofRecords, EvidenceStatus
    <2>6. proof' \in [Agreements -> [ProofSlots -> ProofRecords]]
      BY <2>1, <2>2, <2>5, ProofWrite DEF SubmitProof
    <2>7. CoreTypeOK'
      BY <2>1, CreateProofTypes DEF SubmitProof
    <2> QED
      BY <2>1, <2>4, <2>6, <2>7 DEF SubmitProof, TypeOK
  <1>2. ASSUME NEW i \in ProofSlots, ApproveProof(w, a, i) \/ RejectProof(w, a, i)
        PROVE  TypeOK'
    <2>1. PICK decision \in EvidenceStatus : DecideProof(w, a, i, decision)
      BY <1>2 DEF ApproveProof, RejectProof, EvidenceStatus
    <2>2. proof[a][i] \in ProofRecords
      BY DEF TypeOK
    <2>3. [proof[a][i] EXCEPT !.status = decision, !.decidedBy = w] \in ProofRecords
      BY <2>2 DEF ProofRecords
    <2>4. proof' \in [Agreements -> [ProofSlots -> ProofRecords]]
      BY <2>1, <2>3, ProofWrite DEF DecideProof
    <2> QED
      BY <2>1, <2>4 DEF DecideProof, TypeOK, CoreTypeOK
  <1> QED
    BY <1>1, <1>2 DEF Evidence

LEMMA AroundTypes ==
    ASSUME TypeOK, CoreStep \/ \E w \in Wallets, a \in Agreements, n \in Amounts : Donate(w, a, n)
    PROVE  TypeOK'
  <1>1. CASE CoreStep
    <2>1. PICK w \in Wallets : CoreCall(w)
      BY <1>1, CallerAssumption DEF CoreStep
    <2>2. CASE \E id \in ProofIds, h \in Hashes : CreateProof(w, id, h)
      BY <1>1, <2>2, CreateProofTypes DEF CoreStep, TypeOK
    <2>3. CASE \E addr \in Addresses : RevokeProof(w, addr)
      <3>1. PICK addr \in Addresses : RevokeProof(w, addr)
        BY <2>3
      <3>2. record \in [Addresses -> Records] /\ record[addr] \in Records
        BY DEF TypeOK, CoreTypeOK
      <3>3. [record[addr] EXCEPT !.status = "Revoked"] \in Records
        BY <3>1, <3>2 DEF RevokeProof, Exists, Records, ProofStatus, AbsentRecord
      <3>4. record' = [record EXCEPT ![addr] = [record[addr] EXCEPT !.status = "Revoked"]]
        BY <3>1, <3>2 DEF RevokeProof
      <3> QED
        BY <1>1, <3>2, <3>3, <3>4 DEF CoreStep, TypeOK, CoreTypeOK
    <2> QED
      BY <2>1, <2>2, <2>3 DEF CoreCall
  <1>2. CASE \E w \in Wallets, a \in Agreements, n \in Amounts : Donate(w, a, n)
    BY <1>2, AmountAssumption DEF Donate, TypeOK, CoreTypeOK
  <1> QED
    BY <1>1, <1>2

LEMMA TypeInit == Init => TypeOK
  <1> SUFFICES ASSUME Init PROVE TypeOK
    OBVIOUS
  <1>1. CoreTypeOK
    BY DEF Init, CoreInit, CoreTypeOK, Records
  <1>2. AbsentAgreement \in AgreementRecords
    BY LimitAssumption
    DEF AbsentAgreement, NewAgreement, AgreementRecords, AgreementType, Citations
  <1>3. AbsentMilestone \in MilestoneRecords /\ AbsentProof \in ProofRecords
    BY DEF AbsentMilestone, AbsentProof, MilestoneRecords, ProofRecords, Citations
  <1> QED
    BY <1>1, <1>2, <1>3, AmountAssumption DEF Init, EscrowInit, TypeOK

LEMMA TypeStep == TypeOK /\ [Next]_vars => TypeOK'
  <1> SUFFICES ASSUME TypeOK, [Next]_vars PROVE TypeOK'
    OBVIOUS
  <1>1. CASE EscrowNext
    BY <1>1, LifecycleTypes, TrancheTypes, EvidenceTypes, AroundTypes, CallerAssumption
    DEF EscrowNext
  <1>2. CASE CoreStep
    BY <1>2, AroundTypes
  <1>3. CASE UNCHANGED vars
    BY <1>3 DEF vars, TypeOK, CoreTypeOK
  <1> QED
    BY <1>1, <1>2, <1>3 DEF Next

\* Every account of the two programs, and every token account, always holds a value
\* of its type: in particular no token balance goes below zero and no account is
\* written at an address that is not its own.
THEOREM TypeCorrect == Spec => []TypeOK
  BY TypeInit, TypeStep, PTL DEF Spec
-----------------------------------------------------------------------------
(* What the two kinds of write leave in the accounts. *)

LEMMA Written ==
    ASSUME TypeOK, NEW a \in Agreements, NEW r, WriteBack(a, r)
    PROVE  /\ agreement'[a] = r
           /\ \A b \in Agreements \ {a} : agreement'[b] = agreement[b]
  BY DEF TypeOK, WriteBack

LEMMA PaidOut ==
    ASSUME TypeOK, NEW a \in Agreements, NEW d, NEW n \in Nat, PayOutOfVault(a, d, n)
    PROVE  /\ n <= vault[a] /\ vault'[a] = vault[a] - n
           /\ \A b \in Agreements \ {a} : vault'[b] = vault[b]
  BY DEF TypeOK, PayOutOfVault
-----------------------------------------------------------------------------
(* The steps, field by field. *)

\* Only the accounts of agreement a are touched.
OnlyAccountsOf(a) ==
    \A b \in Agreements \ {a} :
        /\ agreement'[b] = agreement[b]
        /\ milestone'[b] = milestone[b]
        /\ proof'[b] = proof[b]
        /\ vault'[b] = vault[b]

\* The fields of an agreement account, but for its state, in four groups.
KeepsDeal(a) ==
    /\ agreement'[a].type = agreement[a].type
    /\ agreement'[a].amount = agreement[a].amount
KeepsPayee(a) == agreement'[a].counterparty = agreement[a].counterparty
KeepsSchedule(a) ==
    /\ agreement'[a].milestoneCount = agreement[a].milestoneCount
    /\ agreement'[a].milestoneTotal = agreement[a].milestoneTotal
KeepsPayments(a) ==
    /\ agreement'[a].settledTotal = agreement[a].settledTotal
    /\ agreement'[a].milestonesSettled = agreement[a].milestonesSettled
    /\ agreement'[a].settlementProof = agreement[a].settlementProof
KeepsProofs(a) == agreement'[a].proofCount = agreement[a].proofCount

\* initialize_agreement
Opened(a, t, p, n) ==
    /\ State(a) = "Absent"
    /\ n > 0
    /\ p # Default \/ t = "Bounty"
    /\ p # CreatorOf[a]
    /\ agreement'[a] = NewAgreement(t, p, n)
    /\ UNCHANGED <<record, milestone, proof, balance, vault>>

\* select_counterparty
Chosen(a, p) ==
    /\ State(a) \in {"Open", "Funded"} /\ State(a)' = State(a)
    /\ ~HasCounterparty(a)
    /\ p \notin {Default, CreatorOf[a]}
    /\ agreement'[a].counterparty = p
    /\ KeepsDeal(a) /\ KeepsSchedule(a) /\ KeepsPayments(a) /\ KeepsProofs(a)
    /\ UNCHANGED <<record, milestone, proof, balance, vault>>

\* fund
Deposited(a) ==
    /\ State(a) = "Open" /\ State(a)' = "Funded"
    /\ IsMilestoneContract(a) => agreement[a].milestoneTotal = agreement[a].amount
    /\ KeepsDeal(a) /\ KeepsPayee(a) /\ KeepsSchedule(a) /\ KeepsPayments(a) /\ KeepsProofs(a)
    /\ agreement[a].amount <= balance[CreatorOf[a]]
    /\ balance' = [balance EXCEPT ![CreatorOf[a]] = @ - agreement[a].amount]
    /\ vault'[a] = vault[a] + agreement[a].amount
    /\ UNCHANGED <<record, milestone, proof>>

\* cancel, mark_completed, open_dispute
Moved(a) ==
    /\ \/ State(a) = "Open" /\ State(a)' = "Cancelled"
       \/ State(a) = "Funded" /\ State(a)' = "Completed" /\ HasCounterparty(a)
       \/ State(a) \in {"Funded", "Completed"} /\ State(a)' = "Disputed" /\ HasCounterparty(a)
    /\ KeepsDeal(a) /\ KeepsPayee(a) /\ KeepsSchedule(a) /\ KeepsPayments(a) /\ KeepsProofs(a)
    /\ UNCHANGED <<record, milestone, proof, balance, vault>>

\* settle, refund, resolve_dispute: all that remains to d, citing c if anything.
Closed(a, d, c) ==
    /\ IsLive(a) /\ HasCounterparty(a)
    /\ \/ State(a)' = "Settled" /\ d = agreement[a].counterparty
       \/ State(a)' = "Refunded" /\ d = CreatorOf[a]
    /\ KeepsDeal(a) /\ KeepsPayee(a) /\ KeepsSchedule(a) /\ KeepsProofs(a)
    /\ Remaining(a) <= vault[a]
    /\ agreement[a].settledTotal + Remaining(a) <= agreement[a].amount
    /\ agreement'[a].settledTotal = agreement[a].settledTotal + Remaining(a)
    /\ agreement'[a].milestonesSettled = agreement[a].milestonesSettled
    /\ agreement'[a].settlementProof = c
    /\ \/ c = agreement[a].settlementProof
       \/ State(a)' = "Settled" /\ \E r : CitedProofValid(a, c, r)
    /\ vault'[a] = vault[a] - Remaining(a)
    /\ balance' = [balance EXCEPT ![d] = @ + Remaining(a)]
    /\ UNCHANGED <<record, milestone, proof>>

\* create_milestone
Scheduled(a, i, n) ==
    /\ State(a) = "Open" /\ State(a)' = "Open" /\ IsMilestoneContract(a)
    /\ i = agreement[a].milestoneCount
    /\ n > 0
    /\ agreement[a].milestoneTotal + n <= agreement[a].amount
    /\ KeepsDeal(a) /\ KeepsPayee(a) /\ KeepsPayments(a) /\ KeepsProofs(a)
    /\ agreement'[a].milestoneCount = i + 1
    /\ agreement'[a].milestoneTotal = agreement[a].milestoneTotal + n
    /\ milestone'[a][i] = [state |-> "Pending", amount |-> n, proof |-> Default]
    /\ \A j \in MilestoneSlots \ {i} : milestone'[a][j] = milestone[a][j]
    /\ UNCHANGED <<record, proof, balance, vault>>

\* submit_milestone, approve_milestone, reject_milestone
Worked(a, i) ==
    /\ State(a) = "Funded"
    /\ milestone[a][i].state \in {"Pending", "Submitted"}
    /\ milestone'[a][i].state \in {"Pending", "Submitted", "Approved"}
    /\ milestone'[a][i].amount = milestone[a][i].amount
    /\ milestone'[a][i].proof = milestone[a][i].proof
    /\ \A j \in MilestoneSlots \ {i} : milestone'[a][j] = milestone[a][j]
    /\ UNCHANGED <<record, agreement, proof, balance, vault>>

\* settle_milestone: tranche i of n tokens, citing c if anything.
Finishes(a) == agreement[a].milestonesSettled + 1 = agreement[a].milestoneCount
TranchePaid(a, i, n, c) ==
    /\ State(a) = "Funded" /\ IsMilestoneContract(a)
    /\ State(a)' = IF Finishes(a) THEN "Settled" ELSE "Funded"
    /\ KeepsDeal(a) /\ KeepsPayee(a) /\ KeepsSchedule(a) /\ KeepsProofs(a)
    /\ milestone[a][i].state = "Approved"
    /\ n = milestone[a][i].amount
    /\ n <= vault[a]
    /\ agreement[a].settledTotal + n <= agreement[a].amount
    /\ agreement'[a].settledTotal = agreement[a].settledTotal + n
    /\ agreement'[a].milestonesSettled = agreement[a].milestonesSettled + 1
    /\ agreement'[a].settlementProof = IF Finishes(a) THEN c
                                       ELSE agreement[a].settlementProof
    /\ \E r : CitedProofValid(a, c, r)
    /\ milestone'[a][i].state = "Settled"
    /\ milestone'[a][i].amount = n
    /\ milestone'[a][i].proof = c
    /\ \A j \in MilestoneSlots \ {i} : milestone'[a][j] = milestone[a][j]
    /\ vault'[a] = vault[a] - n
    /\ balance' = [balance EXCEPT ![agreement[a].counterparty] = @ + n]
    /\ UNCHANGED <<record, proof>>

\* submit_proof, with the record that ppv_core creates for it.
ProofSubmitted(a, i, w) ==
    /\ IsLive(a) /\ State(a)' = State(a)
    /\ IsParty(a, w)
    /\ i = agreement[a].proofCount
    /\ KeepsDeal(a) /\ KeepsPayee(a) /\ KeepsSchedule(a) /\ KeepsPayments(a)
    /\ agreement'[a].proofCount = i + 1
    /\ proof'[a][i] = [submitter |-> w, status |-> "Submitted", decidedBy |-> Default]
    /\ \A j \in ProofSlots \ {i} : proof'[a][j] = proof[a][j]
    /\ record'[CoreProofAddress(w, a, i)].status = "Active"
    /\ \A x \in Addresses \ {CoreProofAddress(w, a, i)} : record'[x] = record[x]
    /\ UNCHANGED <<milestone, balance, vault>>

\* approve_proof, reject_proof
ProofDecided(a, i, w) ==
    /\ IsLive(a) /\ IsParty(a, w)
    /\ w # proof[a][i].submitter
    /\ proof[a][i].status = "Submitted"
    /\ proof'[a][i].status \in {"Approved", "Rejected"}
    /\ proof'[a][i].submitter = proof[a][i].submitter
    /\ proof'[a][i].decidedBy = w
    /\ \A j \in ProofSlots \ {i} : proof'[a][j] = proof[a][j]
    /\ UNCHANGED <<record, agreement, milestone, balance, vault>>

\* A transfer into the vault from outside.
Donated(a, w, n) ==
    /\ n > 0 /\ n <= balance[w]
    /\ balance' = [balance EXCEPT ![w] = @ - n]
    /\ vault'[a] = vault[a] + n
    /\ UNCHANGED <<record, agreement, milestone, proof>>

\* One instruction on the accounts of agreement a.
Touches(a) ==
    /\ OnlyAccountsOf(a)
    /\ \/ \E t \in AgreementType, p \in Owners, n \in Nat : Opened(a, t, p, n)
       \/ \E p \in Owners : Chosen(a, p)
       \/ Deposited(a)
       \/ Moved(a)
       \/ \E d \in Owners, c \in Citations : Closed(a, d, c)
       \/ \E i \in MilestoneSlots, n \in Nat : Scheduled(a, i, n)
       \/ \E i \in MilestoneSlots : Worked(a, i)
       \/ \E i \in MilestoneSlots, n \in Nat, c \in Citations : TranchePaid(a, i, n, c)
       \/ \E i \in ProofSlots, w \in Wallets : ProofSubmitted(a, i, w)
       \/ \E i \in ProofSlots, w \in Wallets : ProofDecided(a, i, w)
       \/ \E w \in Wallets, n \in Nat : Donated(a, w, n)

\* Nothing of the escrow program, and no record of ppv_core disappears.
CoreOnly ==
    /\ UNCHANGED <<agreement, milestone, proof, balance, vault>>
    /\ \A x \in Addresses : Exists(x) => Exists(x)'
-----------------------------------------------------------------------------
LEMMA WrittenMilestone ==
    ASSUME TypeOK, NEW a \in Agreements, NEW i \in MilestoneSlots, NEW r,
           WriteMilestone(a, i, r)
    PROVE  /\ milestone'[a][i] = r
           /\ \A j \in MilestoneSlots \ {i} : milestone'[a][j] = milestone[a][j]
           /\ \A b \in Agreements \ {a} : milestone'[b] = milestone[b]
  BY DEF TypeOK, WriteMilestone

LEMMA WrittenProof ==
    ASSUME TypeOK, NEW a \in Agreements, NEW i \in ProofSlots, NEW r,
           WriteProof(a, i, r)
    PROVE  /\ proof'[a][i] = r
           /\ \A j \in ProofSlots \ {i} : proof'[a][j] = proof[a][j]
           /\ \A b \in Agreements \ {a} : proof'[b] = proof[b]
  BY DEF TypeOK, WriteProof

LEMMA CloseOutCloses ==
    ASSUME TypeOK, NEW a \in Agreements, NEW d \in Owners, NEW c \in Citations,
           NEW s \in AgreementState, CloseOut(a, d, s, c),
           IsLive(a), HasCounterparty(a),
           \/ s = "Settled" /\ d = agreement[a].counterparty
           \/ s = "Refunded" /\ d = CreatorOf[a],
           \/ c = agreement[a].settlementProof
           \/ s = "Settled" /\ \E r : CitedProofValid(a, c, r)
    PROVE  Closed(a, d, c) /\ OnlyAccountsOf(a)
  <1>1. Remaining(a) \in Nat /\ agreement[a] \in AgreementRecords
    BY RemainingIsNat, AccountType
  <1> DEFINE after == [agreement[a] EXCEPT
                !.settledTotal = agreement[a].settledTotal + Remaining(a),
                !.state = s, !.settlementProof = c]
  <1>2. /\ WriteBack(a, after) /\ PayOutOfVault(a, d, Remaining(a))
        /\ PayoutFits(a, Remaining(a)) /\ UNCHANGED <<record, milestone, proof>>
    BY DEF CloseOut
  <1>3. /\ after.type = agreement[a].type /\ after.amount = agreement[a].amount
        /\ after.counterparty = agreement[a].counterparty
        /\ after.milestoneCount = agreement[a].milestoneCount
        /\ after.milestoneTotal = agreement[a].milestoneTotal
        /\ after.milestonesSettled = agreement[a].milestonesSettled
        /\ after.proofCount = agreement[a].proofCount
        /\ after.settledTotal = agreement[a].settledTotal + Remaining(a)
        /\ after.state = s /\ after.settlementProof = c
    BY <1>1 DEF AgreementRecords
  <1>4. agreement'[a] = after /\ \A b \in Agreements \ {a} : agreement'[b] = agreement[b]
    BY <1>2, Written
  <1>5. /\ Remaining(a) <= vault[a] /\ vault'[a] = vault[a] - Remaining(a)
        /\ \A b \in Agreements \ {a} : vault'[b] = vault[b]
    BY <1>1, <1>2, PaidOut
  <1>6. balance' = [balance EXCEPT ![d] = @ + Remaining(a)]
    BY <1>2 DEF PayOutOfVault
  <1>7. State(a)' = s
    BY <1>3, <1>4 DEF State
  <1>8. Closed(a, d, c)
    BY <1>2, <1>3, <1>4, <1>5, <1>6, <1>7
    DEF Closed, KeepsDeal, KeepsPayee, KeepsSchedule, KeepsProofs, PayoutFits
  <1> QED
    BY <1>2, <1>4, <1>5, <1>8 DEF OnlyAccountsOf

LEMMA ClosedState ==
    ASSUME TypeOK, NEW a \in Agreements, NEW d, NEW s, NEW c, CloseOut(a, d, s, c)
    PROVE  State(a)' = s
  <1> DEFINE after == [agreement[a] EXCEPT
                !.settledTotal = agreement[a].settledTotal + Remaining(a),
                !.state = s, !.settlementProof = c]
  <1>1. after.state = s
    BY AccountType DEF AgreementRecords
  <1>2. agreement'[a] = after
    BY Written DEF CloseOut
  <1> QED
    BY <1>1, <1>2 DEF State

\* A write that moves the state and keeps every other field (but disputeOpenedBy).
LEMMA StateWrite ==
    ASSUME TypeOK, NEW a \in Agreements, NEW s, NEW w,
           \/ WriteBack(a, [agreement[a] EXCEPT !.state = s])
           \/ WriteBack(a, [agreement[a] EXCEPT !.state = s, !.disputeOpenedBy = w])
    PROVE  /\ State(a)' = s
           /\ KeepsDeal(a) /\ KeepsPayee(a) /\ KeepsSchedule(a) /\ KeepsPayments(a)
           /\ KeepsProofs(a)
           /\ \A b \in Agreements \ {a} : agreement'[b] = agreement[b]
  <1>1. agreement[a] \in AgreementRecords
    BY AccountType
  <1> DEFINE after1 == [agreement[a] EXCEPT !.state = s]
             after2 == [agreement[a] EXCEPT !.state = s, !.disputeOpenedBy = w]
  <1>2. \A r \in {after1, after2} :
            /\ r.type = agreement[a].type /\ r.amount = agreement[a].amount
            /\ r.counterparty = agreement[a].counterparty
            /\ r.milestoneCount = agreement[a].milestoneCount
            /\ r.milestoneTotal = agreement[a].milestoneTotal
            /\ r.milestonesSettled = agreement[a].milestonesSettled
            /\ r.proofCount = agreement[a].proofCount
            /\ r.settledTotal = agreement[a].settledTotal
            /\ r.state = s /\ r.settlementProof = agreement[a].settlementProof
    BY <1>1 DEF AgreementRecords
  <1>3. agreement'[a] \in {after1, after2}
        /\ \A b \in Agreements \ {a} : agreement'[b] = agreement[b]
    BY Written
  <1> QED
    BY <1>2, <1>3
    DEF State, KeepsDeal, KeepsPayee, KeepsSchedule, KeepsPayments, KeepsProofs

(* What each instruction does, as one of the cases above. *)

LEMMA OpensAgreement ==
    ASSUME TypeOK, NEW w, NEW a \in Agreements, NEW p, NEW t, NEW n, NEW h,
           InitializeAgreement(w, a, p, t, n, h)
    PROVE  Opened(a, t, p, n) /\ OnlyAccountsOf(a)
  BY Written DEF InitializeAgreement, Opened, OnlyAccountsOf

LEMMA ChoosesCounterparty ==
    ASSUME TypeOK, NEW w, NEW a \in Agreements, NEW p, SelectCounterparty(w, a, p)
    PROVE  Chosen(a, p) /\ OnlyAccountsOf(a)
  <1> DEFINE after == [agreement[a] EXCEPT !.counterparty = p]
  <1>1. /\ after.type = agreement[a].type /\ after.amount = agreement[a].amount
        /\ after.counterparty = p
        /\ after.milestoneCount = agreement[a].milestoneCount
        /\ after.milestoneTotal = agreement[a].milestoneTotal
        /\ after.milestonesSettled = agreement[a].milestonesSettled
        /\ after.proofCount = agreement[a].proofCount
        /\ after.settledTotal = agreement[a].settledTotal
        /\ after.state = State(a) /\ after.settlementProof = agreement[a].settlementProof
    BY AccountType DEF AgreementRecords, State
  <1>2. agreement'[a] = after /\ \A b \in Agreements \ {a} : agreement'[b] = agreement[b]
    BY Written DEF SelectCounterparty
  <1> QED
    BY <1>1, <1>2
    DEF SelectCounterparty, CounterpartyAssignable, Chosen, OnlyAccountsOf, State,
        KeepsDeal, KeepsSchedule, KeepsPayments, KeepsProofs

LEMMA DepositsAmount ==
    ASSUME TypeOK, NEW w, NEW a \in Agreements, Fund(w, a)
    PROVE  Deposited(a) /\ OnlyAccountsOf(a)
  <1>1. /\ vault'[a] = vault[a] + agreement[a].amount
        /\ \A b \in Agreements \ {a} : vault'[b] = vault[b]
        /\ w = CreatorOf[a] /\ agreement[a].amount <= balance[CreatorOf[a]]
        /\ balance' = [balance EXCEPT ![CreatorOf[a]] = @ - agreement[a].amount]
    BY DEF Fund, Fundable, TransferIn, TypeOK
  <1> QED
    BY <1>1, StateWrite DEF Fund, Fundable, Deposited, OnlyAccountsOf

LEMMA MovesState ==
    ASSUME TypeOK, NEW w, NEW a \in Agreements
    PROVE  /\ Cancel(w, a) =>
                /\ Moved(a) /\ OnlyAccountsOf(a)
                /\ State(a) = "Open" /\ State(a)' = "Cancelled"
           /\ MarkCompleted(w, a) =>
                /\ Moved(a) /\ OnlyAccountsOf(a)
                /\ State(a) = "Funded" /\ State(a)' = "Completed"
           /\ \A h : OpenDispute(w, a, h) =>
                /\ Moved(a) /\ OnlyAccountsOf(a)
                /\ State(a) \in {"Funded", "Completed"} /\ State(a)' = "Disputed"
  <1>1. ASSUME Cancel(w, a)
        PROVE  /\ Moved(a) /\ OnlyAccountsOf(a)
               /\ State(a) = "Open" /\ State(a)' = "Cancelled"
    BY <1>1, StateWrite DEF Cancel, Cancellable, Moved, OnlyAccountsOf
  <1>2. ASSUME MarkCompleted(w, a)
        PROVE  /\ Moved(a) /\ OnlyAccountsOf(a)
               /\ State(a) = "Funded" /\ State(a)' = "Completed"
    BY <1>2, StateWrite DEF MarkCompleted, Completable, Moved, OnlyAccountsOf
  <1>3. ASSUME NEW h, OpenDispute(w, a, h)
        PROVE  /\ Moved(a) /\ OnlyAccountsOf(a)
               /\ State(a) \in {"Funded", "Completed"} /\ State(a)' = "Disputed"
    BY <1>3, StateWrite DEF OpenDispute, Disputable, Moved, OnlyAccountsOf
  <1> QED
    BY <1>1, <1>2, <1>3

LEMMA SettlesAgreement ==
    ASSUME TypeOK, NEW w, NEW a \in Agreements, NEW d \in Owners, NEW c \in Citations, NEW r,
           Settle(w, a, d, c, r)
    PROVE  /\ Closed(a, d, c) /\ OnlyAccountsOf(a)
           /\ State(a) = "Completed" /\ State(a)' = "Settled"
  <1>1. CloseOut(a, d, "Settled", c) /\ State(a) = "Completed"
    BY DEF Settle, Settleable
  <1>2. Closed(a, d, c) /\ OnlyAccountsOf(a)
    BY CloseOutCloses DEF Settle, Settleable, IsLive, LiveStates, TerminalStates, AgreementState
  <1> QED
    BY <1>1, <1>2, ClosedState

LEMMA RefundsAgreement ==
    ASSUME TypeOK, NEW w, NEW a \in Agreements, NEW d \in Owners, Refund(w, a, d)
    PROVE  /\ Closed(a, d, agreement[a].settlementProof) /\ OnlyAccountsOf(a)
           /\ State(a) \in {"Funded", "Completed"} /\ State(a)' = "Refunded"
           /\ agreement[a].settlementProof \in Citations
  <1>1. agreement[a].settlementProof \in Citations
    BY AccountType DEF AgreementRecords
  <1>2. CloseOut(a, d, "Refunded", agreement[a].settlementProof)
        /\ State(a) \in {"Funded", "Completed"}
    BY DEF Refund, Refundable
  <1>3. Closed(a, d, agreement[a].settlementProof) /\ OnlyAccountsOf(a)
    BY <1>1, CloseOutCloses
    DEF Refund, Refundable, IsLive, LiveStates, TerminalStates, AgreementState
  <1> QED
    BY <1>1, <1>2, <1>3, ClosedState

LEMMA ResolvesDispute ==
    ASSUME TypeOK, NEW w, NEW a \in Agreements, NEW d \in Owners, ResolveDispute(w, a, d)
    PROVE  /\ Closed(a, d, agreement[a].settlementProof) /\ OnlyAccountsOf(a)
           /\ State(a) = "Disputed" /\ State(a)' \in {"Settled", "Refunded"}
           /\ agreement[a].settlementProof \in Citations
  <1>1. agreement[a].settlementProof \in Citations
    BY AccountType DEF AgreementRecords
  <1>2. /\ IsLive(a) /\ HasCounterparty(a) /\ State(a) = "Disputed"
        /\ d = agreement[a].counterparty \/ d = CreatorOf[a]
    BY DEF ResolveDispute, Resolvable, IsLive, IsParty, LiveStates
  <1>3. CASE d = agreement[a].counterparty
    <2>1. CloseOut(a, d, "Settled", agreement[a].settlementProof)
      BY <1>3 DEF ResolveDispute
    <2> QED
      BY <1>1, <1>2, <1>3, <2>1, CloseOutCloses, ClosedState DEF AgreementState, TerminalStates
  <1>4. CASE d # agreement[a].counterparty
    <2>1. CloseOut(a, d, "Refunded", agreement[a].settlementProof)
      BY <1>4 DEF ResolveDispute
    <2> QED
      BY <1>1, <1>2, <1>4, <2>1, CloseOutCloses, ClosedState DEF AgreementState, TerminalStates
  <1> QED
    BY <1>3, <1>4

LEMMA LifecycleTouches ==
    ASSUME TypeOK, NEW w \in Wallets, NEW a \in Agreements, Lifecycle(w, a)
    PROVE  Touches(a)
  <1>1. CASE \E p \in Owners, t \in AgreementType, n \in Amounts, h \in Hashes :
                InitializeAgreement(w, a, p, t, n, h)
    BY <1>1, OpensAgreement, AmountAssumption DEF Touches
  <1>2. CASE \E p \in Owners : SelectCounterparty(w, a, p)
    BY <1>2, ChoosesCounterparty DEF Touches
  <1>3. CASE Fund(w, a)
    BY <1>3, DepositsAmount DEF Touches
  <1>4. CASE Cancel(w, a) \/ MarkCompleted(w, a) \/ \E h \in Hashes : OpenDispute(w, a, h)
    BY <1>4, MovesState DEF Touches
  <1>5. CASE \E d \in Owners, c \in Citations, r \in Addresses \cup {Default} :
                Settle(w, a, d, c, r)
    BY <1>5, SettlesAgreement DEF Touches
  <1>6. CASE \E d \in Owners : Refund(w, a, d)
    BY <1>6, RefundsAgreement DEF Touches
  <1>7. CASE \E d \in Owners : ResolveDispute(w, a, d)
    BY <1>7, ResolvesDispute DEF Touches
  <1> QED
    BY <1>1, <1>2, <1>3, <1>4, <1>5, <1>6, <1>7 DEF Lifecycle, Owners

LEMMA SchedulesTranche ==
    ASSUME TypeOK, NEW w, NEW a \in Agreements, NEW n, NEW h, CreateMilestone(w, a, n, h)
    PROVE  /\ agreement[a].milestoneCount \in MilestoneSlots
           /\ Scheduled(a, agreement[a].milestoneCount, n) /\ OnlyAccountsOf(a)
  <1> DEFINE i == agreement[a].milestoneCount
             total == agreement[a].milestoneTotal + n
             after == [agreement[a] EXCEPT !.milestoneCount = i + 1,
                                           !.milestoneTotal = total]
  <1>1. /\ after.type = agreement[a].type /\ after.amount = agreement[a].amount
        /\ after.counterparty = agreement[a].counterparty
        /\ after.milestoneCount = i + 1
        /\ after.milestoneTotal = total
        /\ after.milestonesSettled = agreement[a].milestonesSettled
        /\ after.proofCount = agreement[a].proofCount
        /\ after.settledTotal = agreement[a].settledTotal
        /\ after.state = State(a) /\ after.settlementProof = agreement[a].settlementProof
    BY AccountType DEF AgreementRecords, State
  <1>2. agreement'[a] = after /\ \A b \in Agreements \ {a} : agreement'[b] = agreement[b]
    BY Written DEF CreateMilestone
  <1>3. i \in MilestoneSlots
    BY AccountType, LimitAssumption DEF AgreementRecords, MilestoneSlots, CreateMilestone
  <1>4. /\ milestone'[a][i] = [state |-> "Pending", amount |-> n, proof |-> Default]
        /\ \A j \in MilestoneSlots \ {i} : milestone'[a][j] = milestone[a][j]
        /\ \A b \in Agreements \ {a} : milestone'[b] = milestone[b]
    BY <1>3, WrittenMilestone DEF CreateMilestone
  <1>5. Scheduled(a, i, n) /\ OnlyAccountsOf(a)
    BY <1>1, <1>2, <1>4
    DEF CreateMilestone, MilestoneCreatable, Scheduled, OnlyAccountsOf, State,
        KeepsDeal, KeepsPayee, KeepsPayments, KeepsProofs
  <1> QED
    BY <1>3, <1>5

LEMMA WorksOnTranche ==
    ASSUME TypeOK, NEW a \in Agreements, NEW i \in MilestoneSlots,
           NEW from \in {"Pending", "Submitted"}, NEW to \in {"Pending", "Submitted", "Approved"},
           MoveMilestone(a, i, from, to)
    PROVE  /\ Worked(a, i) /\ OnlyAccountsOf(a)
           /\ milestone[a][i].state = from /\ milestone'[a][i].state = to
  <1> DEFINE after == [milestone[a][i] EXCEPT !.state = to]
  <1>1. milestone[a][i] \in MilestoneRecords
    BY DEF TypeOK
  <1>2. /\ after.state = to /\ after.amount = milestone[a][i].amount
        /\ after.proof = milestone[a][i].proof
    BY <1>1 DEF MilestoneRecords
  <1>3. /\ milestone'[a][i] = after
        /\ \A j \in MilestoneSlots \ {i} : milestone'[a][j] = milestone[a][j]
        /\ \A b \in Agreements \ {a} : milestone'[b] = milestone[b]
    BY WrittenMilestone DEF MoveMilestone
  <1>4. Worked(a, i) /\ OnlyAccountsOf(a)
    BY <1>2, <1>3 DEF MoveMilestone, MilestoneActive, Worked, OnlyAccountsOf
  <1> QED
    BY <1>2, <1>3, <1>4 DEF MoveMilestone

LEMMA PaysTranche ==
    ASSUME TypeOK, NEW w, NEW a \in Agreements, NEW i \in MilestoneSlots, NEW d \in Owners,
           NEW c \in Citations, NEW r, SettleMilestone(w, a, i, d, c, r)
    PROVE  /\ milestone[a][i].amount \in Nat
           /\ TranchePaid(a, i, milestone[a][i].amount, c) /\ OnlyAccountsOf(a)
  <1> DEFINE n == milestone[a][i].amount
             settled == agreement[a].milestonesSettled + 1
             finished == settled = agreement[a].milestoneCount
             state == IF finished THEN "Settled" ELSE agreement[a].state
             cited == IF finished THEN c ELSE agreement[a].settlementProof
             after == [agreement[a] EXCEPT
                          !.settledTotal = agreement[a].settledTotal + n,
                          !.milestonesSettled = settled,
                          !.state = state, !.settlementProof = cited]
             paid == [milestone[a][i] EXCEPT !.state = "Settled", !.proof = c]
  <1>1. milestone[a][i] \in MilestoneRecords /\ n \in Nat
    BY DEF TypeOK, MilestoneRecords
  <1>2. /\ WriteBack(a, after) /\ WriteMilestone(a, i, paid)
        /\ PayOutOfVault(a, d, n) /\ PayoutFits(a, n)
        /\ State(a) = "Funded" /\ IsMilestoneContract(a)
        /\ milestone[a][i].state = "Approved"
        /\ CitedProofValid(a, c, r) /\ d = agreement[a].counterparty
        /\ UNCHANGED <<record, proof>>
    BY DEF SettleMilestone, MilestoneActive
  <1>3. /\ after.type = agreement[a].type /\ after.amount = agreement[a].amount
        /\ after.counterparty = agreement[a].counterparty
        /\ after.milestoneCount = agreement[a].milestoneCount
        /\ after.milestoneTotal = agreement[a].milestoneTotal
        /\ after.milestonesSettled = settled
        /\ after.proofCount = agreement[a].proofCount
        /\ after.settledTotal = agreement[a].settledTotal + n
        /\ after.state = state /\ after.settlementProof = cited
    BY AccountType DEF AgreementRecords
  <1>4. agreement'[a] = after /\ \A b \in Agreements \ {a} : agreement'[b] = agreement[b]
    BY <1>2, Written
  <1>5. paid.state = "Settled" /\ paid.amount = n /\ paid.proof = c
    BY <1>1 DEF MilestoneRecords
  <1>6. /\ milestone'[a][i] = paid
        /\ \A j \in MilestoneSlots \ {i} : milestone'[a][j] = milestone[a][j]
        /\ \A b \in Agreements \ {a} : milestone'[b] = milestone[b]
    BY <1>2, WrittenMilestone
  <1>7. /\ n <= vault[a] /\ vault'[a] = vault[a] - n
        /\ \A b \in Agreements \ {a} : vault'[b] = vault[b]
    BY <1>1, <1>2, PaidOut
  <1>8. balance' = [balance EXCEPT ![agreement[a].counterparty] = @ + n]
    BY <1>2 DEF PayOutOfVault
  <1>9. /\ agreement[a].settledTotal + n <= agreement[a].amount
        /\ State(a)' = IF finished THEN "Settled" ELSE "Funded"
    BY <1>2, <1>3, <1>4 DEF PayoutFits, State
  <1>10. KeepsDeal(a) /\ KeepsPayee(a) /\ KeepsSchedule(a) /\ KeepsProofs(a)
    BY <1>3, <1>4 DEF KeepsDeal, KeepsPayee, KeepsSchedule, KeepsProofs
  <1>11. /\ agreement'[a].settledTotal = agreement[a].settledTotal + n
         /\ agreement'[a].milestonesSettled = settled
         /\ agreement'[a].settlementProof = cited
    BY <1>3, <1>4
  <1>12. /\ milestone'[a][i].state = "Settled" /\ milestone'[a][i].amount = n
         /\ milestone'[a][i].proof = c
    BY <1>5, <1>6
  <1> HIDE DEF after, paid, n
  <1>13. n = milestone[a][i].amount
    BY DEF n
  <1>14. TranchePaid(a, i, n, c)
    BY <1>2, <1>6, <1>7, <1>8, <1>9, <1>10, <1>11, <1>12, <1>13
    DEF TranchePaid, Finishes
  <1>15. OnlyAccountsOf(a)
    BY <1>2, <1>4, <1>6, <1>7 DEF OnlyAccountsOf
  <1> QED
    BY <1>1, <1>13, <1>14, <1>15

LEMMA TrancheTouches ==
    ASSUME TypeOK, NEW w \in Wallets, NEW a \in Agreements, Tranche(w, a)
    PROVE  Touches(a)
  <1>1. CASE \E n \in Amounts, h \in Hashes : CreateMilestone(w, a, n, h)
    BY <1>1, SchedulesTranche, AmountAssumption DEF Touches
  <1>2. ASSUME NEW i \in MilestoneSlots,
               \/ SubmitMilestone(w, a, i)
               \/ ApproveMilestone(w, a, i)
               \/ RejectMilestone(w, a, i)
        PROVE  Touches(a)
    <2>1. PICK from \in {"Pending", "Submitted"}, to \in {"Pending", "Submitted", "Approved"} :
            MoveMilestone(a, i, from, to)
      BY <1>2 DEF SubmitMilestone, ApproveMilestone, RejectMilestone
    <2> QED
      BY <2>1, WorksOnTranche DEF Touches
  <1>3. ASSUME NEW i \in MilestoneSlots, NEW d \in Owners, NEW c \in Citations,
               NEW r \in Addresses \cup {Default}, SettleMilestone(w, a, i, d, c, r)
        PROVE  Touches(a)
    BY <1>3, PaysTranche DEF Touches
  <1> QED
    BY <1>1, <1>2, <1>3 DEF Tranche, Owners

LEMMA SubmitsEvidence ==
    ASSUME TypeOK, NEW w \in Wallets, NEW a \in Agreements, NEW h, SubmitProof(w, a, h)
    PROVE  /\ agreement[a].proofCount \in ProofSlots
           /\ ProofSubmitted(a, agreement[a].proofCount, w) /\ OnlyAccountsOf(a)
  <1> DEFINE i == agreement[a].proofCount
             after == [agreement[a] EXCEPT !.proofCount = i + 1]
             new == [submitter |-> w, status |-> "Submitted", decidedBy |-> Default]
  <1>1. /\ after.type = agreement[a].type /\ after.amount = agreement[a].amount
        /\ after.counterparty = agreement[a].counterparty
        /\ after.milestoneCount = agreement[a].milestoneCount
        /\ after.milestoneTotal = agreement[a].milestoneTotal
        /\ after.milestonesSettled = agreement[a].milestonesSettled
        /\ after.proofCount = i + 1
        /\ after.settledTotal = agreement[a].settledTotal
        /\ after.state = State(a) /\ after.settlementProof = agreement[a].settlementProof
    BY AccountType DEF AgreementRecords, State
  <1>2. agreement'[a] = after /\ \A b \in Agreements \ {a} : agreement'[b] = agreement[b]
    BY Written DEF SubmitProof
  <1>3. i \in ProofSlots
    BY AccountType, LimitAssumption DEF AgreementRecords, ProofSlots, SubmitProof
  <1>4. /\ proof'[a][i] = new
        /\ \A j \in ProofSlots \ {i} : proof'[a][j] = proof[a][j]
        /\ \A b \in Agreements \ {a} : proof'[b] = proof[b]
    BY <1>3, WrittenProof DEF SubmitProof
  <1>5. CoreProofAddress(w, a, i) \in Addresses
    BY <1>3, CoreProofIdAssumption DEF CoreProofAddress, Addresses
  <1>6. /\ record'[CoreProofAddress(w, a, i)].status = "Active"
        /\ \A x \in Addresses \ {CoreProofAddress(w, a, i)} : record'[x] = record[x]
    <2>1. CreateProof(w, CoreProofId(a, i), h) /\ record \in [Addresses -> Records]
      BY DEF SubmitProof, TypeOK, CoreTypeOK
    <2>2. record' = [record EXCEPT ![CoreProofAddress(w, a, i)] =
                          [status |-> "Active", content |-> h]]
      BY <2>1 DEF CreateProof, CoreProofAddress
    <2> QED
      BY <1>5, <2>1, <2>2
  <1>7. /\ IsParty(a, w) /\ IsLive(a) /\ UNCHANGED <<milestone, balance, vault>>
    BY DEF SubmitProof, ProofSubmittable
  <1>8. /\ KeepsDeal(a) /\ KeepsPayee(a) /\ KeepsSchedule(a) /\ KeepsPayments(a)
        /\ State(a)' = State(a) /\ agreement'[a].proofCount = i + 1
    BY <1>1, <1>2 DEF KeepsDeal, KeepsPayee, KeepsSchedule, KeepsPayments, State
  <1>9. ProofSubmitted(a, i, w)
    BY <1>4, <1>6, <1>7, <1>8 DEF ProofSubmitted
  <1>10. OnlyAccountsOf(a)
    BY <1>2, <1>4, <1>7 DEF OnlyAccountsOf
  <1> QED
    BY <1>3, <1>9, <1>10

LEMMA DecidesEvidence ==
    ASSUME TypeOK, NEW w, NEW a \in Agreements, NEW i \in ProofSlots,
           NEW decision \in {"Approved", "Rejected"}, DecideProof(w, a, i, decision)
    PROVE  /\ ProofDecided(a, i, w) /\ OnlyAccountsOf(a)
           /\ IsLive(a) /\ proof'[a][i].status = decision
  <1> DEFINE after == [proof[a][i] EXCEPT !.status = decision, !.decidedBy = w]
  <1>1. proof[a][i] \in ProofRecords
    BY DEF TypeOK
  <1>2. /\ after.status = decision /\ after.decidedBy = w
        /\ after.submitter = proof[a][i].submitter
    BY <1>1 DEF ProofRecords
  <1>3. /\ proof'[a][i] = after
        /\ \A j \in ProofSlots \ {i} : proof'[a][j] = proof[a][j]
        /\ \A b \in Agreements \ {a} : proof'[b] = proof[b]
    BY WrittenProof DEF DecideProof
  <1>4. ProofDecided(a, i, w) /\ OnlyAccountsOf(a)
    BY <1>2, <1>3 DEF DecideProof, Decidable, ProofDecided, OnlyAccountsOf
  <1> QED
    BY <1>2, <1>3, <1>4 DEF DecideProof, Decidable

LEMMA EvidenceTouches ==
    ASSUME TypeOK, NEW w \in Wallets, NEW a \in Agreements, Evidence(w, a)
    PROVE  Touches(a)
  <1>1. CASE \E h \in Hashes : SubmitProof(w, a, h)
    BY <1>1, SubmitsEvidence DEF Touches
  <1>2. ASSUME NEW i \in ProofSlots, ApproveProof(w, a, i) \/ RejectProof(w, a, i)
        PROVE  Touches(a)
    BY <1>2, DecidesEvidence DEF ApproveProof, RejectProof, Touches
  <1> QED
    BY <1>1, <1>2 DEF Evidence

\* There is no other step.
LEMMA StepTouches ==
    ASSUME TypeOK, [Next]_vars
    PROVE  CoreOnly \/ \E a \in Agreements : Touches(a)
  <1>1. ASSUME NEW w \in Wallets, NEW a \in Agreements, NEW n \in Amounts, Donate(w, a, n)
        PROVE  Touches(a)
    <2>1. Donated(a, w, n) /\ OnlyAccountsOf(a)
      BY <1>1 DEF Donate, Donated, OnlyAccountsOf, TypeOK
    <2> QED
      BY <2>1, AmountAssumption DEF Touches
  <1>2. CASE EscrowNext
    BY <1>1, <1>2, LifecycleTouches, TrancheTouches, EvidenceTouches, CallerAssumption
    DEF EscrowNext
  <1>3. CASE CoreStep
    <2>1. PICK w \in CoreCallers : CoreCall(w)
      BY <1>3 DEF CoreStep
    <2>2. record \in [Addresses -> Records]
      BY DEF TypeOK, CoreTypeOK
    <2>3. CASE \E id \in ProofIds, h \in Hashes : CreateProof(w, id, h)
      BY <1>3, <2>2, <2>3 DEF CoreStep, CreateProof, CoreOnly, Exists
    <2>4. CASE \E x \in Addresses : RevokeProof(w, x)
      <3>1. PICK x \in Addresses : RevokeProof(w, x)
        BY <2>4
      <3>2. record'[x].status = "Revoked" \/ record'[x] = record[x]
        BY <2>2, <3>1 DEF RevokeProof, Records, AbsentRecord
      <3>3. \A y \in Addresses \ {x} : record'[y] = record[y]
        BY <2>2, <3>1 DEF RevokeProof
      <3> QED
        BY <1>3, <3>2, <3>3 DEF CoreStep, CoreOnly, Exists
    <2> QED
      BY <2>1, <2>3, <2>4 DEF CoreCall
  <1>4. CASE UNCHANGED vars
    BY <1>4 DEF vars, CoreOnly, Exists
  <1> QED
    BY <1>2, <1>3, <1>4 DEF Next
=============================================================================
