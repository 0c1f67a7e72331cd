------------------------ MODULE PpvEscrowGuarantees ------------------------
(***************************************************************************)
(* What ppv_escrow guarantees about custody, single steps and evidence,    *)
(* proved by the cases of PpvEscrowProofs, for any number of wallets,       *)
(* agreements, milestones, proofs and tokens.                              *)
(***************************************************************************)
EXTENDS PpvEscrowProofs

\* Seen from agreement a, a step touches it or leaves all its accounts alone.
LEMMA StepSeenFrom ==
    ASSUME TypeOK, [Next]_vars, NEW a \in Agreements
    PROVE  \/ Touches(a)
           \/ /\ agreement'[a] = agreement[a]
              /\ milestone'[a] = milestone[a]
              /\ proof'[a] = proof[a]
              /\ vault'[a] = vault[a]
  BY StepTouches DEF CoreOnly, Touches, OnlyAccountsOf

LEMMA AccountFields ==
    ASSUME TypeOK, NEW a \in Agreements
    PROVE  /\ agreement[a].amount \in Nat /\ agreement[a].settledTotal \in Nat
           /\ agreement[a].milestonesSettled \in Nat
           /\ agreement[a].milestoneCount \in 0 .. MaxMilestones
           /\ agreement[a].milestoneTotal \in Nat
           /\ agreement[a].proofCount \in 0 .. MaxProofs
           /\ agreement[a].counterparty \in Owners
           /\ State(a) \in AgreementState \cup {"Absent"}
           /\ vault[a] \in Nat
  BY DEF TypeOK, AgreementRecords, Owners, State
-----------------------------------------------------------------------------
(* Custody. *)

\* The books of one agreement: record_payout never accounts for more than was agreed,
\* nothing is accounted for before funding, and a live agreement's vault covers the rest.
\* VaultCoversDebt is not inductive without the first two: funding adds `amount` to the
\* vault, which covers what remains only if nothing was paid before.
Books(a) ==
    /\ agreement[a].settledTotal <= agreement[a].amount
    /\ State(a) \in {"Absent", "Open", "Cancelled"} => agreement[a].settledTotal = 0
    /\ IsLive(a) => vault[a] >= agreement[a].amount - agreement[a].settledTotal

\* Who and what an agreement is for: something, once it exists, and between two parties,
\* of which the second is named before anything can be paid.
Deal(a) ==
    /\ State(a) # "Absent" => agreement[a].amount > 0
    /\ State(a) = "Absent" => agreement[a] = AbsentAgreement
    /\ State(a) # "Absent" /\ agreement[a].type # "Bounty" => HasCounterparty(a)
    /\ State(a) \in {"Completed", "Disputed"} => HasCounterparty(a)
    /\ agreement[a].counterparty # CreatorOf[a]

CustodyInv == TypeOK /\ \A a \in Agreements : Books(a) /\ Deal(a)

LEMMA CustodyInit == Init => CustodyInv
  <1> SUFFICES ASSUME Init, TypeOK, NEW a \in Agreements PROVE Books(a) /\ Deal(a)
    BY TypeInit DEF CustodyInv
  <1>1. agreement[a] = AbsentAgreement /\ CreatorOf[a] # Default
    BY DefaultAssumption, CreatorAssumption DEF Init, EscrowInit
  <1> QED
    BY <1>1 DEF AbsentAgreement, NewAgreement, Books, Deal, State, IsLive, LiveStates,
                HasCounterparty

LEMMA BooksKept ==
    ASSUME TypeOK, TypeOK', NEW a \in Agreements, Books(a), Deal(a), Touches(a)
    PROVE  Books(a)' /\ Deal(a)'
  <1> USE DEF State, IsLive, LiveStates, HasCounterparty
  <1>1. /\ agreement[a].amount \in Nat /\ agreement[a].settledTotal \in Nat
        /\ agreement'[a].amount \in Nat /\ agreement'[a].settledTotal \in Nat
        /\ vault[a] \in Nat /\ vault'[a] \in Nat
    BY DEF TypeOK, AgreementRecords
  <1>2. ASSUME NEW t \in AgreementType, NEW p \in Owners, NEW n \in Nat, Opened(a, t, p, n)
        PROVE  Books(a)' /\ Deal(a)'
    BY <1>1, <1>2 DEF Opened, NewAgreement, Books, Deal
  <1>3. ASSUME NEW p \in Owners, Chosen(a, p)
        PROVE  Books(a)' /\ Deal(a)'
    BY <1>1, <1>3 DEF Chosen, KeepsDeal, KeepsPayments, Books, Deal
  <1>4. CASE Deposited(a)
    BY <1>1, <1>4 DEF Deposited, KeepsDeal, KeepsPayee, KeepsPayments, Books, Deal
  <1>5. CASE Moved(a)
    BY <1>1, <1>5 DEF Moved, KeepsDeal, KeepsPayee, KeepsPayments, Books, Deal
  <1>6. ASSUME NEW d \in Owners, NEW c \in Citations, Closed(a, d, c)
        PROVE  Books(a)' /\ Deal(a)'
    BY <1>1, <1>6 DEF Closed, KeepsDeal, KeepsPayee, Books, Deal, Remaining
  <1>7. ASSUME NEW i \in MilestoneSlots, NEW n \in Nat, Scheduled(a, i, n)
        PROVE  Books(a)' /\ Deal(a)'
    BY <1>1, <1>7 DEF Scheduled, KeepsDeal, KeepsPayee, KeepsPayments, Books, Deal
  <1>8. ASSUME NEW i \in MilestoneSlots, NEW n \in Nat, NEW c \in Citations,
               TranchePaid(a, i, n, c)
        PROVE  Books(a)' /\ Deal(a)'
    BY <1>1, <1>8 DEF TranchePaid, KeepsDeal, KeepsPayee, Books, Deal
  <1>9. ASSUME NEW i \in ProofSlots, NEW w \in Wallets, ProofSubmitted(a, i, w)
        PROVE  Books(a)' /\ Deal(a)'
    BY <1>1, <1>9 DEF ProofSubmitted, KeepsDeal, KeepsPayee, KeepsPayments, Books, Deal
  <1>10. ASSUME UNCHANGED agreement, vault'[a] >= vault[a]
         PROVE  Books(a)' /\ Deal(a)'
    BY <1>1, <1>10 DEF Books, Deal
  <1> QED
    BY <1>1, <1>2, <1>3, <1>4, <1>5, <1>6, <1>7, <1>8, <1>9, <1>10
    DEF Touches, Worked, ProofDecided, Donated

LEMMA CustodyStep == CustodyInv /\ [Next]_vars => CustodyInv'
  <1> SUFFICES ASSUME CustodyInv, [Next]_vars PROVE CustodyInv'
    OBVIOUS
  <1>1. TypeOK /\ TypeOK'
    BY TypeStep DEF CustodyInv
  <1>2. ASSUME NEW a \in Agreements PROVE Books(a)' /\ Deal(a)'
    <2>1. Books(a) /\ Deal(a)
      BY DEF CustodyInv
    <2>2. CASE Touches(a)
      BY <1>1, <2>1, <2>2, BooksKept
    <2>3. CASE agreement'[a] = agreement[a] /\ vault'[a] = vault[a]
      BY <2>1, <2>3 DEF Books, Deal, State, IsLive, HasCounterparty
    <2> QED
      BY <1>1, <2>2, <2>3, StepSeenFrom
  <1> QED
    BY <1>1, <1>2 DEF CustodyInv

LEMMA CustodyAlways == Spec => []CustodyInv
  BY CustodyInit, CustodyStep, PTL DEF Spec

\* No sequence of instructions, of any number of agreements and with tokens arriving in
\* vaults from outside, leaves a live agreement's vault short of what record_payout has
\* still to account for.
THEOREM VaultAlwaysCoversDebt == Spec => []VaultCoversDebt
  <1>1. CustodyInv => VaultCoversDebt
    <2> SUFFICES ASSUME CustodyInv, NEW a \in Agreements, IsLive(a)
                 PROVE  vault[a] >= Remaining(a)
      BY DEF VaultCoversDebt
    <2>1. agreement[a].amount \in Nat /\ agreement[a].settledTotal \in Nat
      BY DEF CustodyInv, TypeOK, AgreementRecords
    <2> QED
      BY <2>1 DEF CustodyInv, Books, Remaining
  <1> QED
    BY <1>1, CustodyAlways, PTL

\* A payment debits the vault by exactly what the ledger records, and credits the one
\* party that the outcome names; no instruction pays out of one agreement for another.
THEOREM PaymentsAlwaysMatch == Spec => PaymentsMatchLedger
  <1> DEFINE Match(a) ==
        /\ vault'[a] < vault[a] => PaysOneParty(a)
        /\ agreement'[a].settledTotal # agreement[a].settledTotal => vault'[a] < vault[a]
  <1>1. ASSUME CustodyInv, [Next]_vars, NEW a \in Agreements
        PROVE  Match(a)
    <2>1. TypeOK /\ Books(a) /\ Deal(a)
      BY <1>1 DEF CustodyInv
    <2>2. /\ agreement[a].amount \in Nat /\ agreement[a].settledTotal \in Nat /\ vault[a] \in Nat
          /\ agreement[a].counterparty \in Owners
      BY <2>1, AccountFields
    <2>3. CASE vault'[a] = vault[a] /\ agreement'[a].settledTotal = agreement[a].settledTotal
      BY <2>2, <2>3
    <2>4. CASE vault'[a] >= vault[a] /\ agreement'[a].settledTotal = agreement[a].settledTotal
      <3>1. vault'[a] \in Nat
        BY <1>1, <2>1, TypeStep DEF TypeOK
      <3> QED
        BY <2>2, <2>4, <3>1
    <2>5. ASSUME NEW d \in Owners, NEW n \in Nat, OnlyAccountsOf(a),
                 vault'[a] = vault[a] - n, n <= vault[a],
                 agreement'[a].settledTotal = agreement[a].settledTotal + n,
                 balance' = [balance EXCEPT ![d] = @ + n],
                 d = IF State(a)' = "Refunded" THEN CreatorOf[a]
                     ELSE agreement[a].counterparty,
                 d # Default
          PROVE  Match(a)
      <3>1. vault[a] - vault'[a] = n
        BY <2>2, <2>5
      <3>2. PaysOneParty(a)
        BY <2>5, <3>1 DEF PaysOneParty, OnlyAccountsOf
      <3> QED
        BY <2>2, <2>5, <3>2
    <2>6. ASSUME NEW d \in Owners, NEW c \in Citations, OnlyAccountsOf(a), Closed(a, d, c)
          PROVE  Match(a)
      <3>1. Remaining(a) \in Nat /\ CreatorOf[a] # Default
        BY <2>1, RemainingIsNat, CreatorAssumption, DefaultAssumption
      <3>2. d # Default /\ d = IF State(a)' = "Refunded" THEN CreatorOf[a]
                               ELSE agreement[a].counterparty
        BY <2>6, <3>1 DEF Closed, HasCounterparty
      <3> QED
        BY <2>5, <2>6, <3>1, <3>2 DEF Closed
    <2>7. ASSUME NEW i \in MilestoneSlots, NEW n \in Nat, NEW c \in Citations,
                 OnlyAccountsOf(a), TranchePaid(a, i, n, c)
          PROVE  Match(a)
      <3>1. State(a)' # "Refunded"
        BY <2>7 DEF TranchePaid
      <3>2. agreement[a].counterparty # Default
        BY <2>1, <2>7 DEF TranchePaid, IsMilestoneContract, Deal, HasCounterparty
      <3> QED
        BY <2>2, <2>5, <2>7, <3>1, <3>2 DEF TranchePaid
    <2>8. ASSUME NEW t \in AgreementType, NEW p \in Owners, NEW n \in Nat, Opened(a, t, p, n)
          PROVE  Match(a)
      BY <2>1, <2>2, <2>8 DEF Opened, NewAgreement, Books
    <2>9. CASE Touches(a)
      <3>1. CASE \/ \E p \in Owners : Chosen(a, p)
                 \/ Moved(a)
                 \/ \E i \in MilestoneSlots, n \in Nat : Scheduled(a, i, n)
                 \/ \E i \in MilestoneSlots : Worked(a, i)
                 \/ \E i \in ProofSlots, w \in Wallets : ProofSubmitted(a, i, w)
                 \/ \E i \in ProofSlots, w \in Wallets : ProofDecided(a, i, w)
        BY <2>3, <3>1
        DEF Chosen, Moved, Scheduled, Worked, ProofSubmitted, ProofDecided, KeepsPayments
      <3>2. CASE Deposited(a) \/ \E w \in Wallets, n \in Nat : Donated(a, w, n)
        BY <2>2, <2>4, <3>2 DEF Deposited, Donated, KeepsPayments
      <3> QED
        BY <2>6, <2>7, <2>8, <2>9, <3>1, <3>2 DEF Touches
    <2> QED
      BY <1>1, <2>1, <2>3, <2>9, StepSeenFrom
  <1>2. CustodyInv /\ [Next]_vars => [\A a \in Agreements : Match(a)]_vars
    BY <1>1
  <1> QED
    BY <1>2, CustodyAlways, PTL DEF Spec, PaymentsMatchLedger
-----------------------------------------------------------------------------
(* The lifecycle, one step at a time. *)

\* What the parties signed up to never changes after it exists, and nothing of an
\* agreement that is over changes again.
THEOREM TermsStayFrozen == Spec => TermsAreFrozen
  <1> DEFINE Frozen(a) ==
        State(a) # "Absent" =>
            /\ agreement'[a].type = agreement[a].type
            /\ agreement'[a].amount = agreement[a].amount
            /\ HasCounterparty(a) => agreement'[a].counterparty = agreement[a].counterparty
            /\ State(a) # "Open" =>
                    /\ agreement'[a].milestoneTotal = agreement[a].milestoneTotal
                    /\ \A i \in MilestoneSlots :
                            milestone'[a][i].amount = milestone[a][i].amount
            /\ IsTerminal(a) =>
                    agreement'[a] = agreement[a] /\ milestone'[a] = milestone[a]
  <1>1. ASSUME TypeOK, [Next]_vars, NEW a \in Agreements
        PROVE  Frozen(a)
    <2> USE DEF IsTerminal, TerminalStates, IsLive, LiveStates
    <2>1. CASE agreement'[a] = agreement[a] /\ milestone'[a] = milestone[a]
      BY <2>1
    <2>2. CASE \E t \in AgreementType, p \in Owners, n \in Nat : Opened(a, t, p, n)
      BY <2>2 DEF Opened
    <2>3. CASE \E p \in Owners : Chosen(a, p)
      BY <2>3 DEF Chosen, KeepsDeal, KeepsSchedule
    <2>4. CASE Deposited(a)
      BY <2>4 DEF Deposited, KeepsDeal, KeepsPayee, KeepsSchedule
    <2>5. CASE Moved(a)
      BY <2>5 DEF Moved, KeepsDeal, KeepsPayee, KeepsSchedule
    <2>6. CASE \E d \in Owners, c \in Citations : Closed(a, d, c)
      BY <2>6 DEF Closed, KeepsDeal, KeepsPayee, KeepsSchedule
    <2>7. CASE \E i \in MilestoneSlots, n \in Nat : Scheduled(a, i, n)
      BY <2>7 DEF Scheduled, KeepsDeal, KeepsPayee
    <2>8. CASE \E i \in MilestoneSlots : Worked(a, i)
      BY <2>8 DEF Worked
    <2>9. CASE \E i \in MilestoneSlots, n \in Nat, c \in Citations : TranchePaid(a, i, n, c)
      <3>1. PICK i \in MilestoneSlots, n \in Nat, c \in Citations : TranchePaid(a, i, n, c)
        BY <2>9
      <3> QED
        BY <3>1 DEF TranchePaid, KeepsDeal, KeepsPayee, KeepsSchedule
    <2>10. CASE \E i \in ProofSlots, w \in Wallets : ProofSubmitted(a, i, w)
      BY <2>10 DEF ProofSubmitted, KeepsDeal, KeepsPayee, KeepsSchedule
    <2>11. CASE \/ \E i \in ProofSlots, w \in Wallets : ProofDecided(a, i, w)
                \/ \E w \in Wallets, n \in Nat : Donated(a, w, n)
      BY <2>1, <2>11 DEF ProofDecided, Donated
    <2> QED
      BY <1>1, <2>1, <2>2, <2>3, <2>4, <2>5, <2>6, <2>7, <2>8, <2>9, <2>10, <2>11,
         StepSeenFrom DEF Touches
  <1>2. TypeOK /\ [Next]_vars => [\A a \in Agreements : Frozen(a)]_vars
    BY <1>1
  <1> QED
    BY <1>2, TypeCorrect, PTL DEF Spec, TermsAreFrozen

\* Only the concession that ends a dispute pays anyone, and no tranche moves in one.
THEOREM DisputesFreeze == Spec => DisputeFreezes
  <1> DEFINE Freezes(a) ==
        State(a) = "Disputed" =>
            /\ milestone'[a] = milestone[a]
            /\ State(a)' = "Disputed" => vault'[a] >= vault[a]
  <1>1. ASSUME TypeOK, [Next]_vars, NEW a \in Agreements
        PROVE  Freezes(a)
    <2>1. vault[a] \in Nat
      BY <1>1 DEF TypeOK
    <2>2. CASE milestone'[a] = milestone[a] /\ vault'[a] = vault[a]
      BY <2>1, <2>2
    <2>3. CASE \E d \in Owners, c \in Citations : Closed(a, d, c)
      BY <2>3 DEF Closed
    <2>4. CASE \E w \in Wallets, n \in Nat : Donated(a, w, n)
      BY <2>1, <2>4 DEF Donated
    <2>5. CASE \/ Deposited(a)
               \/ \E i \in MilestoneSlots, n \in Nat : Scheduled(a, i, n)
               \/ \E i \in MilestoneSlots : Worked(a, i)
               \/ \E i \in MilestoneSlots, n \in Nat, c \in Citations : TranchePaid(a, i, n, c)
      BY <2>5 DEF Deposited, Scheduled, Worked, TranchePaid
    <2> QED
      BY <1>1, <2>2, <2>3, <2>4, <2>5, StepSeenFrom
      DEF Touches, Opened, Chosen, Moved, ProofSubmitted, ProofDecided
  <1>2. TypeOK /\ [Next]_vars => [\A a \in Agreements : Freezes(a)]_vars
    BY <1>1
  <1> QED
    BY <1>2, TypeCorrect, PTL DEF Spec, DisputeFreezes
-----------------------------------------------------------------------------
(* Evidence, across the boundary between the two programs. *)

\* EvidenceIsAnchored and CitationsAreSound for one agreement, and that milestone
\* accounts exist below milestoneCount only.  Neither of the first two is inductive on
\* its own: a new proof could overwrite a cited one, if its index were not free.
Anchored(a) ==
    \A i \in ProofSlots :
        /\ i < agreement[a].proofCount <=> proof[a][i].status # "Absent"
        /\ proof[a][i].status # "Absent" =>
            /\ IsParty(a, proof[a][i].submitter)
            /\ Exists(CoreProofAddress(proof[a][i].submitter, a, i))
        /\ proof[a][i].status \in {"Approved", "Rejected"} <=> proof[a][i].decidedBy # Default
        /\ proof[a][i].decidedBy # Default =>
            /\ IsParty(a, proof[a][i].decidedBy)
            /\ proof[a][i].decidedBy # proof[a][i].submitter
Sound(a, c) == \E i \in ProofSlots : c = <<a, i>> /\ proof[a][i].status = "Approved"
Cited(a) ==
    /\ agreement[a].settlementProof # Default =>
            State(a) = "Settled" /\ Sound(a, agreement[a].settlementProof)
    /\ \A i \in MilestoneSlots :
            milestone[a][i].proof # Default =>
                milestone[a][i].state = "Settled" /\ Sound(a, milestone[a][i].proof)
Dense(a) ==
    \A i \in MilestoneSlots :
        i < agreement[a].milestoneCount <=> milestone[a][i].state # "Absent"

EvidenceInv == CustodyInv /\ \A a \in Agreements : Anchored(a) /\ Cited(a) /\ Dense(a)

LEMMA EvidenceInit == Init => EvidenceInv
  <1> SUFFICES ASSUME Init, NEW a \in Agreements
               PROVE  Anchored(a) /\ Cited(a) /\ Dense(a)
    BY CustodyInit DEF EvidenceInv
  <1>1. /\ agreement[a] = AbsentAgreement
        /\ \A i \in MilestoneSlots : milestone[a][i] = AbsentMilestone
        /\ \A i \in ProofSlots : proof[a][i] = AbsentProof
    BY DEF Init, EscrowInit
  <1>2. /\ agreement[a].settlementProof = Default
        /\ agreement[a].proofCount = 0 /\ agreement[a].milestoneCount = 0
        /\ \A i \in MilestoneSlots : milestone[a][i].state = "Absent"
                                        /\ milestone[a][i].proof = Default
        /\ \A i \in ProofSlots : proof[a][i].status = "Absent"
                                    /\ proof[a][i].decidedBy = Default
    BY <1>1 DEF AbsentAgreement, NewAgreement, AbsentMilestone, AbsentProof
  <1>3. (\A i \in MilestoneSlots : i >= 0) /\ (\A i \in ProofSlots : i >= 0)
    BY LimitAssumption DEF MilestoneSlots, ProofSlots
  <1>4. Anchored(a)
    BY <1>2, <1>3, LimitAssumption DEF Anchored, ProofSlots
  <1>5. Cited(a)
    BY <1>2 DEF Cited
  <1>6. Dense(a)
    BY <1>2, <1>3, LimitAssumption DEF Dense, MilestoneSlots
  <1> QED
    BY <1>4, <1>5, <1>6

\* ppv_core never gives up a record.
LEMMA RecordsStay ==
    ASSUME TypeOK, [Next]_vars, NEW x \in Addresses, Exists(x)
    PROVE  Exists(x)'
  <1>1. ASSUME NEW a \in Agreements, Touches(a) PROVE Exists(x)'
    <2>1. CASE \E i \in ProofSlots, w \in Wallets : ProofSubmitted(a, i, w)
      BY <2>1 DEF ProofSubmitted, Exists
    <2> QED
      BY <1>1, <2>1
      DEF Touches, Opened, Chosen, Deposited, Moved, Closed, Scheduled, Worked, TranchePaid,
          ProofDecided, Donated, Exists
  <1> QED
    BY <1>1, StepTouches DEF CoreOnly

LEMMA BlankFields ==
    ASSUME NEW a \in Agreements, agreement[a] = AbsentAgreement
    PROVE  /\ agreement[a].counterparty = Default /\ agreement[a].settlementProof = Default
           /\ agreement[a].amount = 0 /\ agreement[a].settledTotal = 0
           /\ agreement[a].milestoneCount = 0 /\ agreement[a].milestonesSettled = 0
           /\ agreement[a].milestoneTotal = 0 /\ agreement[a].proofCount = 0
  BY DEF AbsentAgreement, NewAgreement

\* Parties are added, never removed.
LEMMA PartiesStay ==
    ASSUME CustodyInv, [Next]_vars, NEW a \in Agreements, NEW w, IsParty(a, w)
    PROVE  IsParty(a, w)'
  <1> USE DEF IsParty
  <1>1. TypeOK /\ Deal(a)
    BY DEF CustodyInv
  <1>2. CASE agreement'[a].counterparty = agreement[a].counterparty
    BY <1>2
  <1>3. CASE agreement[a].counterparty = Default
    BY <1>3
  <1>4. CASE \E t \in AgreementType, p \in Owners, n \in Nat : Opened(a, t, p, n)
    <2>1. agreement[a].counterparty = Default
      BY <1>1, <1>4, BlankFields DEF Deal, Opened
    <2> QED
      BY <1>3, <2>1
  <1>5. CASE Touches(a)
    BY <1>2, <1>3, <1>4, <1>5
    DEF Touches, Chosen, Deposited, Moved, Closed, Scheduled, Worked, TranchePaid,
        ProofSubmitted, ProofDecided, Donated, KeepsPayee, HasCounterparty
  <1> QED
    BY <1>1, <1>2, <1>5, StepSeenFrom

\* The Proof account at i as it is after the step, when it is as it was before.
LEMMA ProofStays ==
    ASSUME CustodyInv, [Next]_vars, NEW a \in Agreements, NEW i \in ProofSlots,
           proof'[a][i] = proof[a][i], proof[a][i].status # "Absent",
           IsParty(a, proof[a][i].submitter),
           Exists(CoreProofAddress(proof[a][i].submitter, a, i))
    PROVE  /\ IsParty(a, proof[a][i].submitter)'
           /\ Exists(CoreProofAddress(proof[a][i].submitter, a, i))'
  <1> DEFINE s == proof[a][i].submitter
             x == CoreProofAddress(s, a, i)
  <1>1. TypeOK
    BY DEF CustodyInv
  <1>2. s \in Wallets
    BY <1>1 DEF TypeOK, ProofRecords, IsParty
  <1>3. x \in Addresses
    BY <1>2, CoreProofIdAssumption DEF CoreProofAddress, Addresses
  <1>4. Exists(x)'
    BY <1>1, <1>3, RecordsStay
  <1>5. proof'[a][i].submitter = s
    OBVIOUS
  <1>6. ASSUME NEW t, IsParty(a, t) PROVE t # Default /\ t \in {CreatorOf[a], agreement'[a].counterparty}
    BY <1>6, PartiesStay DEF IsParty
  <1>7. IsParty(a, proof[a][i].submitter)'
    BY <1>5, <1>6 DEF IsParty
  <1> QED
    BY <1>4, <1>5, <1>7 DEF Exists, CoreProofAddress

LEMMA AnchoredKept ==
    ASSUME CustodyInv, [Next]_vars, NEW a \in Agreements, Anchored(a)
    PROVE  Anchored(a)'
  <1>1. TypeOK /\ TypeOK' /\ Deal(a)
    BY TypeStep DEF CustodyInv
  <1>2. agreement[a].proofCount \in 0 .. MaxProofs
    BY <1>1, AccountFields
  <1> DEFINE Stays(i) ==
        /\ proof'[a][i].status = "Absent" \/
            /\ IsParty(a, proof[a][i].submitter)'
            /\ Exists(CoreProofAddress(proof[a][i].submitter, a, i))'
        /\ proof'[a][i].status \in {"Approved", "Rejected"} <=> proof'[a][i].decidedBy # Default
        /\ proof'[a][i].decidedBy # Default =>
            /\ IsParty(a, proof[a][i].decidedBy)'
            /\ proof'[a][i].decidedBy # proof'[a][i].submitter
  <1>3. ASSUME NEW i \in ProofSlots, proof'[a][i] = proof[a][i]
        PROVE  Stays(i)
    <2>1. ASSUME NEW t, IsParty(a, t)
          PROVE  t # Default /\ t \in {CreatorOf[a], agreement'[a].counterparty}
      BY <2>1, PartiesStay DEF IsParty
    <2>2. proof[a][i].decidedBy # Default => IsParty(a, proof[a][i].decidedBy)'
      BY <1>3, <2>1 DEF Anchored, IsParty
    <2>3. CASE proof[a][i].status = "Absent"
      BY <1>3, <2>2, <2>3 DEF Anchored
    <2>4. CASE proof[a][i].status # "Absent"
      BY <1>3, <2>2, <2>4, ProofStays DEF Anchored
    <2> QED
      BY <2>3, <2>4
  <1>4. ASSUME proof'[a] = proof[a],
               agreement'[a].proofCount = agreement[a].proofCount
        PROVE  Anchored(a)'
    <2>1. ASSUME NEW i \in ProofSlots
          PROVE  /\ Stays(i)
                 /\ i < agreement'[a].proofCount <=> proof'[a][i].status # "Absent"
      BY <1>3, <1>4 DEF Anchored
    <2> QED
      BY <2>1 DEF Anchored
  <1>5. ASSUME NEW t \in AgreementType, NEW p \in Owners, NEW n \in Nat, Opened(a, t, p, n)
        PROVE  Anchored(a)'
    <2>1. agreement[a].proofCount = 0
      BY <1>1, <1>5, BlankFields DEF Deal, Opened
    <2>2. agreement'[a].proofCount = 0 /\ proof'[a] = proof[a]
      BY <1>5 DEF Opened, NewAgreement
    <2> QED
      BY <1>4, <2>1, <2>2
  <1>6. ASSUME NEW k \in ProofSlots, NEW w \in Wallets, ProofSubmitted(a, k, w)
        PROVE  Anchored(a)'
    <2>1. /\ proof'[a][k].submitter = w /\ proof'[a][k].status = "Submitted"
          /\ proof'[a][k].decidedBy = Default
      BY <1>6 DEF ProofSubmitted
    <2>2. Stays(k)
      <3>1. IsParty(a, w) /\ agreement'[a].counterparty = agreement[a].counterparty
        BY <1>6 DEF ProofSubmitted, KeepsPayee
      <3>2. record'[CoreProofAddress(w, a, k)].status = "Active"
        BY <1>6 DEF ProofSubmitted
      <3> QED
        BY <2>1, <3>1, <3>2 DEF IsParty, Exists
    <2>3. ASSUME NEW i \in ProofSlots
          PROVE  /\ Stays(i)
                 /\ i < agreement'[a].proofCount <=> proof'[a][i].status # "Absent"
      <3>1. k = agreement[a].proofCount /\ agreement'[a].proofCount = k + 1
        BY <1>6 DEF ProofSubmitted
      <3>2. k \in Nat /\ i \in Nat
        BY LimitAssumption DEF ProofSlots
      <3>3. CASE i = k
        BY <2>1, <2>2, <3>1, <3>2, <3>3
      <3>4. CASE i # k
        <4>1. proof'[a][i] = proof[a][i]
          BY <1>6, <3>4 DEF ProofSubmitted
        <4>2. i < k <=> i < k + 1
          BY <3>2, <3>4
        <4> QED
          BY <1>3, <3>1, <4>1, <4>2 DEF Anchored
      <3> QED
        BY <3>3, <3>4
    <2> QED
      BY <2>3 DEF Anchored
  <1>7. ASSUME NEW k \in ProofSlots, NEW w \in Wallets, ProofDecided(a, k, w)
        PROVE  Anchored(a)'
    <2>1. /\ UNCHANGED <<agreement, record>> /\ IsParty(a, w) /\ w # Default
          /\ proof'[a][k].decidedBy = w /\ w # proof'[a][k].submitter
          /\ proof'[a][k].status \in {"Approved", "Rejected"}
          /\ proof[a][k].status = "Submitted"
          /\ proof'[a][k].submitter = proof[a][k].submitter
      BY <1>7 DEF ProofDecided, IsParty
    <2>2. Stays(k)
      <3>1. IsParty(a, proof[a][k].submitter)
            /\ Exists(CoreProofAddress(proof[a][k].submitter, a, k))
        BY <2>1 DEF Anchored
      <3> QED
        BY <2>1, <3>1 DEF IsParty, Exists
    <2>3. ASSUME NEW i \in ProofSlots
          PROVE  /\ Stays(i)
                 /\ i < agreement'[a].proofCount <=> proof'[a][i].status # "Absent"
      <3>1. CASE i = k
        BY <2>1, <2>2, <3>1 DEF Anchored
      <3>2. CASE i # k
        <4>1. proof'[a][i] = proof[a][i]
          BY <1>7, <3>2 DEF ProofDecided
        <4> QED
          BY <1>3, <2>1, <4>1 DEF Anchored
      <3> QED
        BY <3>1, <3>2
    <2> QED
      BY <2>3 DEF Anchored
  <1>8. CASE Touches(a)
    BY <1>4, <1>5, <1>6, <1>7, <1>8
    DEF Touches, Chosen, Deposited, Moved, Closed, Scheduled, Worked, TranchePaid, Donated,
        KeepsProofs
  <1> QED
    BY <1>1, <1>4, <1>8, StepSeenFrom

\* What is approved stays approved, so a sound citation stays sound.
LEMMA SoundStays ==
    ASSUME TypeOK, [Next]_vars, NEW a \in Agreements, Anchored(a), NEW c, Sound(a, c)
    PROVE  Sound(a, c)'
  <1>1. PICK i \in ProofSlots : c = <<a, i>> /\ proof[a][i].status = "Approved"
    BY DEF Sound
  <1>2. i < agreement[a].proofCount
    BY <1>1 DEF Anchored
  <1>3. agreement[a].proofCount \in Nat
    BY AccountFields, LimitAssumption
  <1>4. proof'[a][i] = proof[a][i]
    <2>1. CASE proof'[a] = proof[a]
      BY <2>1
    <2>2. CASE \E k \in ProofSlots, w \in Wallets : ProofSubmitted(a, k, w)
      BY <1>2, <1>3, <2>2 DEF ProofSubmitted
    <2>3. CASE \E k \in ProofSlots, w \in Wallets : ProofDecided(a, k, w)
      BY <1>1, <2>3 DEF ProofDecided
    <2>4. CASE Touches(a)
      BY <2>1, <2>2, <2>3, <2>4
      DEF Touches, Opened, Chosen, Deposited, Moved, Closed, Scheduled, Worked, TranchePaid,
          Donated
    <2> QED
      BY <2>1, <2>4, StepSeenFrom
  <1> QED
    BY <1>1, <1>4 DEF Sound

LEMMA CitationIsSound ==
    ASSUME NEW a \in Agreements, NEW c, NEW r, CitedProofValid(a, c, r), c # Default
    PROVE  Sound(a, c)
  BY DEF CitedProofValid, Sound

LEMMA CitedKept ==
    ASSUME CustodyInv, [Next]_vars, NEW a \in Agreements, Anchored(a), Cited(a), Dense(a)
    PROVE  Cited(a)'
  <1> USE DEF LiveStates, TerminalStates, IsLive
  <1>1. TypeOK /\ TypeOK' /\ Deal(a)
    BY TypeStep DEF CustodyInv
  <1>2. ASSUME NEW c, Sound(a, c) PROVE Sound(a, c)'
    BY <1>1, <1>2, SoundStays
  <1> DEFINE AgreementCited ==
                agreement'[a].settlementProof # Default =>
                    State(a)' = "Settled" /\ Sound(a, agreement[a].settlementProof)'
             MilestoneCited(i) ==
                milestone'[a][i].proof # Default =>
                    milestone'[a][i].state = "Settled" /\ Sound(a, milestone[a][i].proof)'
  <1>3. ASSUME NEW c, c # Default => Sound(a, c), agreement'[a].settlementProof = c,
               c = Default \/ State(a)' = "Settled"
        PROVE  AgreementCited
    BY <1>2, <1>3 DEF Sound
  <1>4. ASSUME NEW i \in MilestoneSlots, NEW c, c # Default => Sound(a, c),
               milestone'[a][i].proof = c, c = Default \/ milestone'[a][i].state = "Settled"
        PROVE  MilestoneCited(i)
    BY <1>2, <1>4 DEF Sound
  <1>5. ASSUME NEW i \in MilestoneSlots, milestone'[a][i] = milestone[a][i]
        PROVE  MilestoneCited(i)
    BY <1>4, <1>5 DEF Cited
  <1>6. ASSUME agreement'[a].settlementProof = agreement[a].settlementProof,
               State(a)' = State(a) \/ State(a) # "Settled"
        PROVE  AgreementCited
    BY <1>3, <1>6 DEF Cited
  <1>7. ASSUME AgreementCited, \A i \in MilestoneSlots : MilestoneCited(i)
        PROVE  Cited(a)'
    BY <1>7 DEF Cited
  <1>8. CASE milestone'[a] = milestone[a] /\ agreement'[a] = agreement[a]
    BY <1>5, <1>6, <1>7, <1>8 DEF State
  <1>9. CASE \E t \in AgreementType, p \in Owners, n \in Nat : Opened(a, t, p, n)
    <2>1. milestone'[a] = milestone[a] /\ agreement'[a].settlementProof = Default
      BY <1>9 DEF Opened, NewAgreement
    <2> QED
      BY <1>3, <1>5, <1>7, <2>1
  <1>10. CASE \/ \E p \in Owners : Chosen(a, p)
              \/ Deposited(a) \/ Moved(a)
              \/ \E i \in ProofSlots, w \in Wallets : ProofSubmitted(a, i, w)
    <2>1. /\ milestone'[a] = milestone[a] /\ State(a) # "Settled"
          /\ agreement'[a].settlementProof = agreement[a].settlementProof
      BY <1>10 DEF Chosen, Deposited, Moved, ProofSubmitted, KeepsPayments
    <2> QED
      BY <1>5, <1>6, <1>7, <2>1
  <1>11. ASSUME NEW d \in Owners, NEW c \in Citations, Closed(a, d, c)
         PROVE  Cited(a)'
    <2>1. /\ milestone'[a] = milestone[a] /\ agreement[a].settlementProof = Default
          /\ agreement'[a].settlementProof = c
      BY <1>11 DEF Closed, Cited
    <2>2. c = Default \/ (State(a)' = "Settled" /\ Sound(a, c))
      BY <1>11, <2>1, CitationIsSound DEF Closed
    <2> QED
      BY <1>3, <1>5, <1>7, <2>1, <2>2
  <1>12. ASSUME NEW k \in MilestoneSlots, NEW n \in Nat, Scheduled(a, k, n)
         PROVE  Cited(a)'
    <2>1. /\ agreement'[a].settlementProof = agreement[a].settlementProof
          /\ State(a) # "Settled" /\ milestone'[a][k].proof = Default
          /\ \A i \in MilestoneSlots \ {k} : milestone'[a][i] = milestone[a][i]
      BY <1>12 DEF Scheduled, KeepsPayments
    <2>2. ASSUME NEW i \in MilestoneSlots PROVE MilestoneCited(i)
      BY <1>5, <2>1
    <2> QED
      BY <1>6, <1>7, <2>1, <2>2
  <1>13. ASSUME NEW k \in MilestoneSlots, Worked(a, k)
         PROVE  Cited(a)'
    <2>1. /\ agreement' = agreement
          /\ milestone[a][k].state # "Settled"
          /\ milestone'[a][k].proof = milestone[a][k].proof
          /\ \A i \in MilestoneSlots \ {k} : milestone'[a][i] = milestone[a][i]
      BY <1>13 DEF Worked
    <2>2. milestone'[a][k].proof = Default
      BY <2>1 DEF Cited
    <2>3. ASSUME NEW i \in MilestoneSlots PROVE MilestoneCited(i)
      BY <1>5, <2>1, <2>2
    <2>4. AgreementCited
      BY <1>6, <2>1 DEF State
    <2> QED
      BY <1>7, <2>3, <2>4
  <1>14. ASSUME NEW k \in MilestoneSlots, NEW n \in Nat, NEW c \in Citations,
                TranchePaid(a, k, n, c)
         PROVE  Cited(a)'
    <2>1. /\ State(a) # "Settled" /\ State(a)' = IF Finishes(a) THEN "Settled" ELSE "Funded"
          /\ agreement'[a].settlementProof =
                IF Finishes(a) THEN c ELSE agreement[a].settlementProof
          /\ milestone'[a][k].proof = c /\ milestone'[a][k].state = "Settled"
          /\ \A i \in MilestoneSlots \ {k} : milestone'[a][i] = milestone[a][i]
      BY <1>14 DEF TranchePaid
    <2>2. c # Default => Sound(a, c)
      BY <1>14, CitationIsSound DEF TranchePaid
    <2>3. AgreementCited
      <3>1. CASE Finishes(a)
        BY <1>3, <2>1, <2>2, <3>1
      <3>2. CASE ~Finishes(a)
        BY <1>6, <2>1, <3>2
      <3> QED
        BY <3>1, <3>2
    <2>4. ASSUME NEW i \in MilestoneSlots PROVE MilestoneCited(i)
      BY <1>4, <1>5, <2>1, <2>2
    <2> QED
      BY <1>7, <2>3, <2>4
  <1>15. CASE Touches(a)
    BY <1>8, <1>9, <1>10, <1>11, <1>12, <1>13, <1>14, <1>15
    DEF Touches, ProofDecided, Donated
  <1> QED
    BY <1>1, <1>8, <1>15, StepSeenFrom

LEMMA DenseKept ==
    ASSUME CustodyInv, [Next]_vars, NEW a \in Agreements, Dense(a)
    PROVE  Dense(a)'
  <1>1. TypeOK /\ Deal(a) /\ agreement[a].milestoneCount \in Nat
    BY AccountFields, LimitAssumption DEF CustodyInv
  <1>2. ASSUME agreement'[a].milestoneCount = agreement[a].milestoneCount,
               \A i \in MilestoneSlots :
                    milestone'[a][i].state # "Absent" <=> milestone[a][i].state # "Absent"
        PROVE  Dense(a)'
    BY <1>2 DEF Dense
  <1>3. CASE \E t \in AgreementType, p \in Owners, n \in Nat : Opened(a, t, p, n)
    <2>1. agreement[a].milestoneCount = 0
      BY <1>1, <1>3, BlankFields DEF Deal, Opened
    <2>2. agreement'[a].milestoneCount = 0 /\ milestone' = milestone
      BY <1>3 DEF Opened, NewAgreement
    <2> QED
      BY <1>2, <2>1, <2>2
  <1>4. ASSUME NEW k \in MilestoneSlots, NEW n \in Nat, Scheduled(a, k, n)
        PROVE  Dense(a)'
    <2>1. /\ k = agreement[a].milestoneCount /\ agreement'[a].milestoneCount = k + 1
          /\ milestone'[a][k].state = "Pending"
          /\ \A i \in MilestoneSlots \ {k} : milestone'[a][i] = milestone[a][i]
      BY <1>4 DEF Scheduled
    <2>2. ASSUME NEW i \in MilestoneSlots
          PROVE  i < agreement'[a].milestoneCount <=> milestone'[a][i].state # "Absent"
      <3>1. i \in Nat /\ k \in Nat
        BY LimitAssumption DEF MilestoneSlots
      <3>2. CASE i = k
        BY <2>1, <3>1, <3>2
      <3>3. CASE i # k
        <4>1. i < k <=> i < k + 1
          BY <3>1, <3>3
        <4> QED
          BY <2>1, <3>3, <4>1 DEF Dense
      <3> QED
        BY <3>2, <3>3
    <2> QED
      BY <2>2 DEF Dense
  <1>5. CASE \/ \E k \in MilestoneSlots : Worked(a, k)
             \/ \E k \in MilestoneSlots, n \in Nat, c \in Citations : TranchePaid(a, k, n, c)
    <2>1. PICK k \in MilestoneSlots :
            /\ agreement'[a].milestoneCount = agreement[a].milestoneCount
            /\ milestone[a][k].state # "Absent" /\ milestone'[a][k].state # "Absent"
            /\ \A i \in MilestoneSlots \ {k} : milestone'[a][i] = milestone[a][i]
      <3>1. CASE \E k \in MilestoneSlots : Worked(a, k)
        <4>1. PICK k \in MilestoneSlots : Worked(a, k)
          BY <3>1
        <4> QED
          BY <4>1 DEF Worked
      <3>2. CASE \E k \in MilestoneSlots, n \in Nat, c \in Citations : TranchePaid(a, k, n, c)
        <4>1. PICK k \in MilestoneSlots, n \in Nat, c \in Citations : TranchePaid(a, k, n, c)
          BY <3>2
        <4> QED
          BY <4>1 DEF TranchePaid, KeepsSchedule
      <3> QED
        BY <1>5, <3>1, <3>2
    <2> QED
      BY <1>2, <2>1
  <1>6. CASE Touches(a)
    BY <1>2, <1>3, <1>4, <1>5, <1>6
    DEF Touches, Chosen, Deposited, Moved, Closed, ProofSubmitted, ProofDecided, Donated,
        KeepsSchedule
  <1> QED
    BY <1>1, <1>2, <1>6, StepSeenFrom

LEMMA EvidenceStep == EvidenceInv /\ [Next]_vars => EvidenceInv'
  BY CustodyStep, AnchoredKept, CitedKept, DenseKept DEF EvidenceInv

LEMMA EvidenceAlways == Spec => []EvidenceInv
  BY EvidenceInit, EvidenceStep, PTL DEF Spec

\* A proof account always has its commitment in ppv_core, made by its submitter, who is
\* a party; indices are dense; and only the other party has decided it - whatever anybody
\* does to ppv_core directly.
THEOREM EvidenceStaysAnchored == Spec => []EvidenceIsAnchored
  <1>1. EvidenceInv => EvidenceIsAnchored
    BY DEF EvidenceInv, Anchored, EvidenceIsAnchored
  <1> QED
    BY <1>1, EvidenceAlways, PTL

\* Every citation names approved evidence of its own agreement, on a payment that
\* happened, and no later decision takes the approval back.
THEOREM CitationsStaySound == Spec => []CitationsAreSound
  <1>1. EvidenceInv => CitationsAreSound
    BY DEF EvidenceInv, Cited, Sound, CitationsAreSound
  <1> QED
    BY <1>1, EvidenceAlways, PTL

\* RR13-001: wherever the revocation falls, a payment that cites evidence is made only
\* while the commitment behind it stands.
THEOREM PaymentsNeedLiveEvidence == Spec => PaymentsRestOnLiveEvidence
  <1> DEFINE Live(a) ==
        /\ agreement'[a].settlementProof # agreement[a].settlementProof =>
                Stands(agreement'[a].settlementProof)
        /\ \A i \in MilestoneSlots :
                milestone'[a][i].proof # milestone[a][i].proof =>
                    Stands(milestone'[a][i].proof)
  <1>1. ASSUME NEW a \in Agreements, NEW c, NEW r, CitedProofValid(a, c, r), c # Default
        PROVE  Stands(c)
    BY <1>1 DEF CitedProofValid, LiveCoreCommitment, Stands
  <1>2. ASSUME EvidenceInv, [Next]_vars, NEW a \in Agreements
        PROVE  Live(a)
    <2> USE DEF IsLive, LiveStates
    <2>1. TypeOK /\ Deal(a) /\ Cited(a) /\ Dense(a)
      BY <1>2 DEF EvidenceInv, CustodyInv
    <2>2. CASE /\ milestone'[a] = milestone[a]
               /\ agreement'[a].settlementProof = agreement[a].settlementProof
      BY <2>2
    <2>3. CASE \E t \in AgreementType, p \in Owners, n \in Nat : Opened(a, t, p, n)
      <3>1. agreement[a].settlementProof = Default
        BY <2>1, <2>3, BlankFields DEF Deal, Opened
      <3>2. agreement'[a].settlementProof = Default /\ milestone' = milestone
        BY <2>3 DEF Opened, NewAgreement
      <3> QED
        BY <2>2, <3>1, <3>2
    <2>4. ASSUME NEW d \in Owners, NEW c \in Citations, Closed(a, d, c)
          PROVE  Live(a)
      <3>1. /\ milestone' = milestone /\ agreement'[a].settlementProof = c
            /\ agreement[a].settlementProof = Default
            /\ c = agreement[a].settlementProof \/ \E r : CitedProofValid(a, c, r)
        BY <2>1, <2>4 DEF Closed, Cited
      <3> QED
        BY <1>1, <3>1
    <2>5. ASSUME NEW k \in MilestoneSlots, NEW n \in Nat, Scheduled(a, k, n)
          PROVE  Live(a)
      <3>1. k = agreement[a].milestoneCount /\ k \in Nat
        BY <2>5, LimitAssumption DEF Scheduled, MilestoneSlots
      <3>2. milestone[a][k].proof = Default
        BY <2>1, <3>1 DEF Dense, Cited
      <3>3. /\ milestone'[a][k].proof = Default
            /\ agreement'[a].settlementProof = agreement[a].settlementProof
            /\ \A i \in MilestoneSlots \ {k} : milestone'[a][i] = milestone[a][i]
        BY <2>5 DEF Scheduled, KeepsPayments
      <3> QED
        BY <3>2, <3>3
    <2>6. ASSUME NEW k \in MilestoneSlots, Worked(a, k)
          PROVE  Live(a)
      BY <2>6 DEF Worked
    <2>7. ASSUME NEW k \in MilestoneSlots, NEW n \in Nat, NEW c \in Citations,
                 TranchePaid(a, k, n, c)
          PROVE  Live(a)
      <3>1. /\ State(a) = "Funded" /\ milestone[a][k].state = "Approved"
            /\ agreement'[a].settlementProof \in {c, agreement[a].settlementProof}
            /\ milestone'[a][k].proof = c
            /\ \A i \in MilestoneSlots \ {k} : milestone'[a][i] = milestone[a][i]
            /\ \E r : CitedProofValid(a, c, r)
        BY <2>7 DEF TranchePaid
      <3>2. milestone[a][k].proof = Default /\ agreement[a].settlementProof = Default
        BY <2>1, <3>1 DEF Cited
      <3>3. c = Default \/ Stands(c)
        BY <1>1, <3>1
      <3> QED
        BY <3>1, <3>2, <3>3
    <2>8. CASE Touches(a)
      BY <2>2, <2>3, <2>4, <2>5, <2>6, <2>7, <2>8
      DEF Touches, Chosen, Deposited, Moved, ProofSubmitted, ProofDecided, Donated, KeepsPayments
    <2> QED
      BY <1>2, <2>1, <2>2, <2>8, StepSeenFrom
  <1>3. EvidenceInv /\ [Next]_vars => [\A a \in Agreements : Live(a)]_vars
    BY <1>2
  <1> QED
    BY <1>3, EvidenceAlways, PTL DEF Spec, PaymentsRestOnLiveEvidence

\* "A decision is final": nobody, in any order of submissions and decisions on any number
\* of proofs, changes a proof that was decided, or any proof once the agreement is over.
THEOREM DecisionsStayFinal == Spec => DecisionsAreFinal
  <1> DEFINE Final(a, i) ==
        /\ proof[a][i].status # "Absent" =>
                /\ proof'[a][i].status # "Absent"
                /\ proof'[a][i].submitter = proof[a][i].submitter
        /\ proof[a][i].decidedBy # Default => proof'[a][i] = proof[a][i]
        /\ proof'[a][i] # proof[a][i] => IsLive(a)
  <1>1. ASSUME EvidenceInv, [Next]_vars, NEW a \in Agreements, NEW i \in ProofSlots
        PROVE  Final(a, i)
    <2>1. TypeOK /\ Anchored(a)
      BY <1>1 DEF EvidenceInv, CustodyInv
    <2>2. CASE proof'[a][i] = proof[a][i]
      BY <2>2
    <2>3. ASSUME NEW k \in ProofSlots, NEW w \in Wallets, ProofSubmitted(a, k, w)
          PROVE  Final(a, i)
      <3>1. k = agreement[a].proofCount /\ k \in Nat /\ IsLive(a)
        BY <2>3, LimitAssumption DEF ProofSubmitted, ProofSlots
      <3>2. proof[a][k].status = "Absent" /\ proof[a][k].decidedBy = Default
        BY <2>1, <3>1 DEF Anchored
      <3>3. i = k \/ proof'[a][i] = proof[a][i]
        BY <2>3 DEF ProofSubmitted
      <3> QED
        BY <3>1, <3>2, <3>3
    <2>4. ASSUME NEW k \in ProofSlots, NEW w \in Wallets, ProofDecided(a, k, w)
          PROVE  Final(a, i)
      <3>1. /\ IsLive(a) /\ proof[a][k].status = "Submitted"
            /\ proof'[a][k].status \in {"Approved", "Rejected"}
            /\ proof'[a][k].submitter = proof[a][k].submitter
            /\ i = k \/ proof'[a][i] = proof[a][i]
        BY <2>4 DEF ProofDecided
      <3>2. proof[a][k].decidedBy = Default
        BY <2>1, <3>1 DEF Anchored
      <3> QED
        BY <3>1, <3>2
    <2>5. CASE Touches(a)
      BY <2>2, <2>3, <2>4, <2>5
      DEF Touches, Opened, Chosen, Deposited, Moved, Closed, Scheduled, Worked, TranchePaid,
          Donated
    <2> QED
      BY <1>1, <2>1, <2>2, <2>5, StepSeenFrom
  <1>2. EvidenceInv /\ [Next]_vars => [\A a \in Agreements, i \in ProofSlots : Final(a, i)]_vars
    BY <1>1
  <1> QED
    BY <1>2, EvidenceAlways, PTL DEF Spec, DecisionsAreFinal
=============================================================================
