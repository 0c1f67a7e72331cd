--------------------------- MODULE EscrowReceipts ---------------------------
(***************************************************************************)
(* How the SDK rebuilds the history of an agreement from receipts.         *)
(*                                                                         *)
(* A receipt is an event of ppv_escrow with the coordinates of the         *)
(* instruction that emitted it.  It is identified by them, so the receipts *)
(* an indexer has collected are a set, however often and in whatever order *)
(* they were delivered.  `id` stands for the receipt id, a hash: all that  *)
(* is used of it is how it compares with another's.                        *)
(***************************************************************************)
EXTENDS Naturals, Sequences, FiniteSetsExt

CONSTANT NoProof    \* in place of the proof a payment cites

\* Before is the previousState, with "Absent" for null.
IsTransition(r) == r.before # r.after
Transitions(R) == {r \in R : IsTransition(r)}
Annotations(R) == R \ Transitions(R)
Named(R, names) == {r \in R : r.name \in names}

\* Chain coordinates, then receipt id: the order in which annotations are read.
Precedes(r, q) ==
    \/ r.slot < q.slot
    \/ r.slot = q.slot /\ r.inner < q.inner
    \/ r.slot = q.slot /\ r.inner = q.inner /\ r.id < q.id

Latest(R) == CHOOSE r \in R : \A q \in R \ {r} : Precedes(q, r)
-----------------------------------------------------------------------------
(* The transitions, linked by the states they name. *)
Roots(T) == {r \in T : r.before = "Absent"}

\* From creation along the one transition that leaves each state.
Walk(T) ==
    LET walk[n \in 0 .. Cardinality(T)] ==
            IF n = 0 THEN <<CHOOSE r \in Roots(T) : TRUE>>
            ELSE LET path == walk[n - 1]
                     onward == {r \in T : r.before = path[Len(path)].after}
                 IN  IF onward = {} THEN path
                     ELSE Append(path, CHOOSE r \in onward : TRUE)
    IN  walk[Cardinality(T)]

\* One creation, no fork, no orphan, no state twice, no slot running backwards.
IsOnePath(T, path) ==
    /\ Cardinality(Roots(T)) = 1
    /\ \A r, q \in T : r # q => r.before # q.before /\ r.agreement = q.agreement
    /\ Len(path) = Cardinality(T)
    /\ \A j, k \in DOMAIN path :
            j < k => path[j].after # path[k].after /\ path[j].slot <= path[k].slot

\* Broken: the first transition of the slot or later.
Home_Strict(r, path) ==
    LET earlier == {k \in DOMAIN path : path[k].slot < r.slot}
    IN  path[IF earlier = {} THEN 1 ELSE Max(earlier)]

\* The transition an annotation is filed under: the last not in a later slot.
Home(r, path) == path[Max({k \in DOMAIN path : path[k].slot <= r.slot})]
-----------------------------------------------------------------------------
(* The money. *)

\* Broken: only what a transition paid.
Paid_OnEnding(R, name) ==
    MapThenSumSet(LAMBDA r : r.amount, Named(Transitions(R), {name}))

\* Payments count whether or not they ended the agreement.
Paid(R, name) == MapThenSumSet(LAMBDA r : r.amount, Named(R, {name}))

Funded(R) == Paid(Transitions(R), "AgreementFunded")

\* Broken: a refund is taken at its word.
MoneyAddsUp_Trusting(R) ==
    LET ending == Transitions(R)
    IN  /\ Named(R, {"SettlementExecuted", "RefundExecuted"}) # {} =>
                Named(ending, {"AgreementFunded"}) # {}
        /\ Named(ending, {"SettlementExecuted"}) # {} =>
                /\ Paid(R, "SettlementExecuted") = Funded(R)
                /\ Named(ending, {"RefundExecuted"}) = {}

\* Payments need a funding; when one ends the agreement they must add up to it.
MoneyAddsUp(R) ==
    LET ending == Transitions(R)
    IN  /\ Named(R, {"SettlementExecuted", "RefundExecuted"}) # {} =>
                Named(ending, {"AgreementFunded"}) # {}
        /\ Named(ending, {"SettlementExecuted"}) # {} =>
                /\ Paid(R, "SettlementExecuted") = Funded(R)
                /\ Named(ending, {"RefundExecuted"}) = {}
        /\ Named(ending, {"RefundExecuted"}) # {} =>
                Paid(R, "RefundExecuted") + Paid(R, "SettlementExecuted") = Funded(R)
-----------------------------------------------------------------------------
(* Evidence and tranches, each folded into one record per index. *)
Decisions == {"ProofApproved", "ProofRejected"}
MilestoneSteps ==
    {"MilestoneSubmitted", "MilestoneApproved", "MilestoneRejected", "MilestoneSettled"}

Of(R, index) == {r \in R : r.index = index}
Indices(R) == {r.index : r \in R}

ProofsAddUp(R) ==
    LET submitted == Indices(Named(R, {"ProofSubmitted"}))
    IN  \A i \in Indices(Named(R, Decisions)) :
            i \in submitted /\ Cardinality(Of(Named(R, Decisions), i)) = 1

\* The one decision made, if any.
ProofStatusOf(R, i) ==
    IF Of(Named(R, {"ProofApproved"}), i) # {} THEN "Approved"
    ELSE IF Of(Named(R, {"ProofRejected"}), i) # {} THEN "Rejected"
    ELSE "Submitted"

MilestonesAddUp(R) ==
    LET created == Named(R, {"MilestoneCreated"})
    IN  /\ Indices(Named(R, MilestoneSteps)) \subseteq Indices(created)
        /\ created # {} /\ Named(Transitions(R), {"AgreementFunded"}) # {} =>
                Paid(R, "MilestoneCreated") = Funded(R)

\* Whatever the last step reported.
MilestoneStateOf(R, i) ==
    LET steps == Of(Named(R, MilestoneSteps), i)
    IN  IF steps = {} THEN "Pending"
        ELSE CASE Latest(steps).name = "MilestoneSubmitted" -> "Submitted"
               [] Latest(steps).name = "MilestoneApproved" -> "Approved"
               [] Latest(steps).name = "MilestoneRejected" -> "Pending"
               [] Latest(steps).name = "MilestoneSettled" -> "Settled"

\* The evidence cited by the payment that ended the agreement was seen approved.
CitationAddsUp(R) ==
    \A r \in Named(Transitions(R), {"SettlementExecuted"}) :
        r.proof # NoProof =>
            \E q \in Named(R, {"ProofApproved"}) : q.proof = r.proof
-----------------------------------------------------------------------------
Refused == [state |-> "refused"]

Consistent(R, path) ==
    /\ IsOnePath(Transitions(R), path)
    /\ \A r \in Annotations(R), root \in Roots(Transitions(R)) : root.slot <= r.slot
    /\ MoneyAddsUp(R)
    /\ Cardinality(Named(R, {"CounterpartyAssigned"})) <= 1
    /\ ProofsAddUp(R)
    /\ MilestonesAddUp(R)
    /\ CitationAddsUp(R)

\* A bounty's payee is the one named later.
SellerOf(R) ==
    LET named == Named(R, {"CounterpartyAssigned"})
        source == IF named # {} THEN named ELSE Roots(Transitions(R))
    IN  (CHOOSE r \in source : TRUE).seller

\* reconstructAgreementLifecycle: what the receipts say, or a refusal.
Reconstruct(R) ==
    LET path == Walk(Transitions(R))
    IN  IF ~Consistent(R, path) THEN Refused
        ELSE [state      |-> path[Len(path)].after,
              seller     |-> SellerOf(R),
              funded     |-> Funded(R),
              settled    |-> Paid(R, "SettlementExecuted"),
              refunded   |-> Paid(R, "RefundExecuted"),
              proofs     |-> [i \in Indices(Named(R, {"ProofSubmitted"})) |->
                                ProofStatusOf(R, i)],
              milestones |-> [i \in Indices(Named(R, {"MilestoneCreated"})) |->
                                MilestoneStateOf(R, i)]]
=============================================================================
