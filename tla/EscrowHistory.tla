--------------------------- MODULE EscrowHistory ---------------------------
(***************************************************************************)
(* The escrow with the events it emits, and an indexer that rebuilds its   *)
(* history from them.  Every instruction that takes effect is a            *)
(* transaction on the chain; transfers into vaults and direct calls of     *)
(* ppv_core emit no event of the escrow and are left out.                  *)
(*                                                                         *)
(* A transaction commits in the slot of the one before it or in a later    *)
(* one, and its receipts' ids compare with the others' either way.         *)
(***************************************************************************)
EXTENDS PpvEscrow, FiniteSetsExt

INSTANCE EscrowReceipts WITH NoProof <- Default

CONSTANTS
    MaxTransactions,    \* bound on the length of the history, a tie counting as one more
    MaxTies             \* bound on the ties: transactions that share their predecessor's slot

VARIABLE committed      \* the transactions, oldest first

historyVars == <<vars, committed>>

HistoryInit == Init /\ committed = <<>>

\* The slot and the id of the next transaction.  At most two share a slot.
Places ==
    LET n == Len(committed)
        last == committed[n]
        alone == n = 1 \/ committed[n - 1].slot < last.slot
    IN  IF n = 0 THEN {[slot |-> 1, id |-> 2]}
        ELSE {[slot |-> last.slot + 1, id |-> 2]} \cup
             {[slot |-> last.slot, id |-> k] :
                k \in {k \in {1, 3} : alone /\ n - last.slot < MaxTies}}

\* An event with the coordinates of the instruction that emitted it.
Receipt(event, place, inner) ==
    [name |-> event.name, agreement |-> event.agreement, before |-> event.before,
     after |-> event.after, seller |-> event.seller, amount |-> event.amount,
     index |-> event.index, proof |-> event.proof,
     slot |-> place.slot, id |-> place.id, inner |-> inner]

\* The transaction of one instruction, with a receipt for each of its events: an
\* event's inner index counts the CPIs made before it.
Emits(cpis, events) ==
    \E place \in Places :
        LET length == Len(committed) + 1
            ties == length - place.slot
        IN  /\ length + ties <= MaxTransactions
            /\ committed' = Append(committed,
                [slot |-> place.slot, id |-> place.id,
                 receipts |-> {Receipt(events[j], place, cpis + j) : j \in DOMAIN events}])

\* An event of a step that may have moved the agreement, and one that names the
\* state it left the agreement in.
Event(name, a, before) ==
    [name |-> name, agreement |-> a, before |-> before, after |-> State(a)',
     seller |-> agreement'[a].counterparty, amount |-> 0, index |-> 0, proof |-> Default]
Change(name, a) == Event(name, a, State(a))
Note(name, a) == Event(name, a, State(a)')
Pays(name, a, cited) ==
    [Change(name, a) EXCEPT !.amount = agreement'[a].settledTotal - agreement[a].settledTotal,
                            !.proof = cited]
MilestoneNote(name, a, i) == [Note(name, a) EXCEPT !.index = i]
ProofNote(name, a, i) == [Note(name, a) EXCEPT !.index = i, !.proof = <<a, i>>]

(* Each instruction with what it emits. *)
InitializeAgreementTx(w, a, p, t, n, h) ==
    InitializeAgreement(w, a, p, t, n, h) /\ Emits(1, <<Change("AgreementOpened", a)>>)

SelectCounterpartyTx(w, a, p) ==
    SelectCounterparty(w, a, p) /\ Emits(0, <<Note("CounterpartyAssigned", a)>>)

FundTx(w, a) ==
    /\ Fund(w, a)
    /\ Emits(1, <<[Change("AgreementFunded", a) EXCEPT !.amount = agreement[a].amount]>>)

CancelTx(w, a) == Cancel(w, a) /\ Emits(0, <<Change("AgreementAbandoned", a)>>)

MarkCompletedTx(w, a) == MarkCompleted(w, a) /\ Emits(0, <<Change("WorkCompleted", a)>>)

SettleTx(w, a, d, c, r) ==
    Settle(w, a, d, c, r) /\ Emits(1, <<Pays("SettlementExecuted", a, c)>>)

RefundTx(w, a, d) == Refund(w, a, d) /\ Emits(1, <<Pays("RefundExecuted", a, Default)>>)

OpenDisputeTx(w, a, h) == OpenDispute(w, a, h) /\ Emits(0, <<Change("DisputeOpened", a)>>)

ResolveDisputeTx(w, a, d) ==
    /\ ResolveDispute(w, a, d)
    /\ Emits(1, <<Note("DisputeResolved", a),
                  Pays(IF State(a)' = "Settled" THEN "SettlementExecuted"
                       ELSE "RefundExecuted", a, Default)>>)

CreateMilestoneTx(w, a, n, h) ==
    /\ CreateMilestone(w, a, n, h)
    /\ Emits(1, <<[MilestoneNote("MilestoneCreated", a, agreement[a].milestoneCount)
                    EXCEPT !.amount = n]>>)

SubmitMilestoneTx(w, a, i) ==
    SubmitMilestone(w, a, i) /\ Emits(0, <<MilestoneNote("MilestoneSubmitted", a, i)>>)
ApproveMilestoneTx(w, a, i) ==
    ApproveMilestone(w, a, i) /\ Emits(0, <<MilestoneNote("MilestoneApproved", a, i)>>)
RejectMilestoneTx(w, a, i) ==
    RejectMilestone(w, a, i) /\ Emits(0, <<MilestoneNote("MilestoneRejected", a, i)>>)

SettleMilestoneTx(w, a, i, d, c, r) ==
    /\ SettleMilestone(w, a, i, d, c, r)
    /\ Emits(1, <<MilestoneNote("MilestoneSettled", a, i), Pays("SettlementExecuted", a, c)>>)

SubmitProofTx(w, a, h) ==
    /\ SubmitProof(w, a, h)
    /\ Emits(1, <<ProofNote("ProofSubmitted", a, agreement[a].proofCount)>>)
ApproveProofTx(w, a, i) ==
    ApproveProof(w, a, i) /\ Emits(0, <<ProofNote("ProofApproved", a, i)>>)
RejectProofTx(w, a, i) ==
    RejectProof(w, a, i) /\ Emits(0, <<ProofNote("ProofRejected", a, i)>>)
-----------------------------------------------------------------------------
LifecycleEvents(w, a) ==
    \/ \E p \in Wallets \cup {Default}, t \in AgreementType, n \in Amounts, h \in Hashes :
            InitializeAgreementTx(w, a, p, t, n, h)
    \/ \E p \in Wallets \cup {Default} : SelectCounterpartyTx(w, a, p)
    \/ FundTx(w, a)
    \/ CancelTx(w, a)
    \/ MarkCompletedTx(w, a)
    \/ \E d \in Wallets \cup {Default}, c \in Citations, r \in Addresses \cup {Default} :
            SettleTx(w, a, d, c, r)
    \/ \E d \in Wallets \cup {Default} : RefundTx(w, a, d) \/ ResolveDisputeTx(w, a, d)
    \/ \E h \in Hashes : OpenDisputeTx(w, a, h)

TrancheEvents(w, a) ==
    \/ \E n \in Amounts, h \in Hashes : CreateMilestoneTx(w, a, n, h)
    \/ \E i \in MilestoneSlots :
        \/ SubmitMilestoneTx(w, a, i)
        \/ ApproveMilestoneTx(w, a, i)
        \/ RejectMilestoneTx(w, a, i)
        \/ \E d \in Wallets \cup {Default}, c \in Citations, r \in Addresses \cup {Default} :
                SettleMilestoneTx(w, a, i, d, c, r)

EvidenceEvents(w, a) ==
    \/ \E h \in Hashes : SubmitProofTx(w, a, h)
    \/ \E i \in ProofSlots : ApproveProofTx(w, a, i) \/ RejectProofTx(w, a, i)

HistoryNext ==
    \E w \in Wallets, a \in Agreements :
        LifecycleEvents(w, a) \/ TrancheEvents(w, a) \/ EvidenceEvents(w, a)

HistorySpec == HistoryInit /\ [][HistoryNext]_historyVars
-----------------------------------------------------------------------------
(* The indexer. *)

\* The receipts of the transactions in `read`.
Receipts(read) == UNION {committed[k].receipts : k \in read}

\* replayAgreement, when the endpoint returned the transactions in `read`: one it
\* lists and does not return is passed over.
Replay(a, read) == Reconstruct({r \in Receipts(read) : r.agreement = a})

History(a) == Replay(a, DOMAIN committed)
-----------------------------------------------------------------------------
\* Two of a tranche's steps before its settlement share a slot, so that nothing but
\* the ids of their receipts orders them.
Tied(a, i) ==
    LET steps == {r \in Receipts(DOMAIN committed) :
                    /\ r.agreement = a /\ r.index = i
                    /\ r.name \in MilestoneSteps \ {"MilestoneSettled"}}
    IN  \E r, q \in steps : r # q /\ r.slot = q.slot

\* docs/indexing.md: from the chain alone one can tell "who participated, what state
\* was reached, what funds moved".  However slots and ids fall, the whole history
\* is accepted and agrees with the accounts; of a tranche's state only when no two
\* of its steps are tied.
HistoryMatchesAccount ==
    \A a \in Agreements :
        State(a) # "Absent" =>
            LET h == History(a)
            IN  /\ h # Refused
                /\ h.state = State(a)
                /\ h.seller = agreement[a].counterparty
                /\ h.settled + h.refunded = agreement[a].settledTotal
                /\ IsLive(a) => h.funded = agreement[a].amount
                /\ h.proofs = [i \in 0 .. agreement[a].proofCount - 1 |-> proof[a][i].status]
                /\ DOMAIN h.milestones = 0 .. agreement[a].milestoneCount - 1
                /\ \A i \in DOMAIN h.milestones :
                        h.milestones[i] = milestone[a][i].state \/ Tied(a, i)

\* The listing may name transactions the endpoint does not return.  Whichever one is
\* missing, a history that is accepted never reports more
\* money than has moved, and it reports that the agreement ended with a payment only
\* if that is how it ended and no payment is missing.
GapsDoNotInvent ==
    \A a \in Agreements, i \in DOMAIN committed :
        LET h == Replay(a, DOMAIN committed \ {i})
        IN  h # Refused =>
                /\ h.settled + h.refunded <= agreement[a].settledTotal
                /\ h.state \in {"Settled", "Refunded"} =>
                    /\ h.state = State(a)
                    /\ h.settled + h.refunded = agreement[a].settledTotal

\* "An annotation belongs to the last transition that had already happened when it
\* was recorded": it is filed under the state it names, unless another
\* transaction of its slot moved the agreement.
AnnotationsAreHome ==
    \A a \in Agreements :
        LET R == {r \in Receipts(DOMAIN committed) : r.agreement = a}
            path == Walk(Transitions(R))
        IN  \A r \in Annotations(R) :
                \/ Home(r, path).after = r.after
                \/ \E t \in Transitions(R) : t.slot = r.slot /\ t.id # r.id

\* receipts.ts: "The state a tranche ends on is the state its last step reported".
MilestoneStateIsLastStep ==
    \A a \in Agreements :
        State(a) # "Absent" =>
            \A i \in DOMAIN History(a).milestones :
                History(a).milestones[i] = milestone[a][i].state
=============================================================================
