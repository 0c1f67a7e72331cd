----------------------------- MODULE CustodyRun -----------------------------
(***************************************************************************)
(* One execution of scripts/devnet-escrow-custody.mjs against the deployed *)
(* programs, and the read-only recovery of its evidence afterwards by      *)
(* scripts/recover-devnet-escrow-custody-evidence.mjs.                     *)
(*                                                                         *)
(* The variables of the programs are the confirmed state, which every read *)
(* shows.  A request may fail at any point, whether or not it took effect. *)
(* A transaction may also be reported before it is confirmed (the sender   *)
(* accepts a processed status when the submit request itself failed): it   *)
(* is then in flight, and takes effect later or never.                     *)
(***************************************************************************)
EXTENDS EscrowHistory

CONSTANTS
    Buyer, Seller, Outsider,
    Supply,             \* what `setup` mints to the buyer
    MaxUnconfirmed      \* bound on the outcomes reported before they are confirmed

INSTANCE CustodyScript WITH Nobody <- Default

ASSUME ParticipantAssumption ==
    /\ Wallets = {Buyer, Seller, Outsider}
    /\ Agreements = Labels
    /\ Supply \in Nat /\ MaxUnconfirmed \in Nat

VARIABLES
    pos,            \* the step of the script that is next
    phase,          \* how far that step is
    before,         \* the balances, and the account of a refusal, read before sending
    after,          \* the balances read after
    completed,      \* ctx.completed
    verdict,        \* "running", "PASS", or the classification of the failure
    faulted,        \* a request of the run has failed
    unconfirmed,    \* the steps whose outcome was reported before it was confirmed
    inflight,       \* those of them that may still take effect
    landed,         \* the steps whose transactions succeeded on chain
    refused         \* the steps whose transactions failed on chain

seen == <<before, after>>
outcome == <<inflight, landed, refused>>
runVars == <<historyVars, pos, phase, seen, completed, verdict, faulted, unconfirmed, outcome>>

RunHash == CHOOSE h \in Hashes : NonZero(h)

RunInit ==
    /\ HistoryInit
    /\ pos = 1
    /\ phase = "preflight"
    /\ before = [money |-> <<>>, state |-> "unread", settled |-> 0]
    /\ after = <<>>
    /\ completed = {}
    /\ verdict = "running"
    /\ faulted = FALSE
    /\ unconfirmed = {} /\ inflight = {} /\ landed = {} /\ refused = {}
-----------------------------------------------------------------------------
(* The chain. *)

\* The seeds of a milestone or proof account name its agreement and its index.
PresentsOwnAccount(ix) == ix.of = ix.on

\* The instruction as the program runs it.
Execute(ix) ==
    LET w == ix.by
        a == ix.on
    IN  \/ /\ ix.op = "initialize_agreement"
           /\ InitializeAgreementTx(w, a, ix.who, ix.type, ix.amount, RunHash)
        \/ ix.op = "fund" /\ FundTx(w, a)
        \/ ix.op = "cancel" /\ CancelTx(w, a)
        \/ ix.op = "mark_completed" /\ MarkCompletedTx(w, a)
        \/ ix.op = "settle" /\ SettleTx(w, a, ix.who, ix.cited, ix.core)
        \/ ix.op = "refund" /\ RefundTx(w, a, ix.who)
        \/ ix.op = "open_dispute" /\ OpenDisputeTx(w, a, RunHash)
        \/ ix.op = "resolve_dispute" /\ ResolveDisputeTx(w, a, ix.who)
        \/ ix.op = "select_counterparty" /\ SelectCounterpartyTx(w, a, ix.who)
        \/ /\ ix.op = "create_milestone" /\ ix.at = agreement[a].milestoneCount
           /\ CreateMilestoneTx(w, a, ix.amount, RunHash)
        \/ ix.op = "submit_milestone" /\ SubmitMilestoneTx(w, a, ix.at)
        \/ ix.op = "approve_milestone" /\ ApproveMilestoneTx(w, a, ix.at)
        \/ ix.op = "reject_milestone" /\ RejectMilestoneTx(w, a, ix.at)
        \/ /\ ix.op = "settle_milestone" /\ PresentsOwnAccount(ix)
           /\ SettleMilestoneTx(w, a, ix.at, ix.who, ix.cited, ix.core)
        \/ /\ ix.op = "submit_proof" /\ ix.at = agreement[a].proofCount
           /\ SubmitProofTx(w, a, RunHash)
        \/ ix.op = "approve_proof" /\ PresentsOwnAccount(ix) /\ ApproveProofTx(w, a, ix.at)
        \/ ix.op = "reject_proof" /\ PresentsOwnAccount(ix) /\ RejectProofTx(w, a, ix.at)

\* The transaction of step k, with the outcome the chain gives it.
Succeeds(k) ==
    /\ Execute(Script[k].ix)
    /\ landed' = landed \cup {k}
    /\ UNCHANGED refused

\* Broken: the node's simulation is taken for the program's refusal.
Fails_Simulated(k) ==
    /\ ~ENABLED Execute(Script[k].ix)
    /\ UNCHANGED <<historyVars, landed, refused>>

Fails(k) ==
    /\ ~ENABLED Execute(Script[k].ix)
    /\ refused' = refused \cup {k}
    /\ UNCHANGED <<historyVars, landed>>

NeverLands == UNCHANGED <<historyVars, landed, refused>>

\* A transaction that was reported early is included after all, in whatever state the
\* chain is in by then, or its block is abandoned and it expires.
Lands(k) ==
    /\ Succeeds(k) \/ Fails(k) \/ NeverLands
    /\ inflight' = inflight \ {k}
    /\ UNCHANGED <<pos, phase, seen, completed, verdict, faulted, unconfirmed>>
-----------------------------------------------------------------------------
(* What the run reads, and what it asserts. *)

\* snapshotBalances over the watched accounts; an account not created reads as 0.
Snapshot == [x \in Wallets \cup Agreements |-> IF x \in Wallets THEN balance[x] ELSE vault[x]]

\* assertFunding, assertPayout and assertNoMovement: the complete set of deltas.
AssertDeltas(from, to, moved) ==
    to = [[from EXCEPT ![moved.from] = @ - moved.amount] EXCEPT ![moved.to] = @ + moved.amount]

\* Broken: a cancelled agreement counts as funded.
AssertAccountingConsistent_Cancelled(account, held) ==
    IF account.state = "Open" THEN held = 0 ELSE account.amount - account.settledTotal = held

\* fundedAt is set when the agreement leaves Open other than by `cancel`.
AssertAccountingConsistent(account, held) ==
    /\ account.settledTotal <= account.amount
    /\ IF account.state \in {"Open", "Cancelled"}
       THEN account.settledTotal = 0 /\ held = 0
       ELSE account.amount - account.settledTotal = held

\* The account a step reads after its transaction; a refusal, always the agreement.
AccountOf(step) ==
    LET ix == step.ix
    IN  CASE step.kind = "state" /\ ix.op \in {"submit_milestone", "approve_milestone", "reject_milestone"} ->
                milestone[ix.on][ix.at]
          [] step.kind = "state" /\ ix.op \in {"submit_proof", "approve_proof", "reject_proof"} ->
                proof[ix.on][ix.at]
          [] OTHER -> agreement[ix.on]

Shows(account, expect) == \A f \in DOMAIN expect : account[f] = expect[f]

AssertRefusalChangedNothing(account) ==
    /\ AssertDeltas(before.money, after, Nothing)
    /\ before.state = account.state
    /\ before.settled = account.settledTotal

\* Broken: the account of a milestone or a proof is not read back.
Outcome_Unread(step) ==
    LET moved == AssertDeltas(before.money, after, step.moved)
    IN  IF step.kind \in {"refuse", "state"} THEN (IF moved THEN "ok" ELSE "InvariantViolation")
        ELSE IF ~moved \/ ~Shows(AccountOf(step), step.expect) THEN "CustodyDefect"
        ELSE "ok"

\* openAgreement, valueStep, milestoneUpdate, submitProof, decideProof and
\* attemptRefusal: what the reads after the transaction make of it.
Outcome(step) ==
    LET account == AccountOf(step)
        moved == AssertDeltas(before.money, after, step.moved)
    IN  IF step.kind = "send" THEN "ok"
        ELSE IF step.kind = "refuse"
             THEN (IF AssertRefusalChangedNothing(account) THEN "ok" ELSE "InvariantViolation")
        ELSE IF ~moved THEN "InvariantViolation"
        ELSE IF step.kind = "open" /\ account.state = "Absent" THEN "CustodyHarnessFailure"
        ELSE IF ~Shows(account, step.expect) THEN "CustodyDefect"
        ELSE IF step.kind = "value" /\ ~AssertAccountingConsistent(account, after[step.ix.on])
             THEN "InvariantViolation"
        ELSE "ok"

\* classifyFailure, for an error that carries no classification of its own.
ClassifyFailure(error) ==
    CASE error = "CustodyDefect" -> "CUSTODY_DEFECT"
      [] error = "CustodyHarnessFailure" -> "HARNESS_DEFECT"
      [] OTHER -> "RPC_PROVIDER_FAILURE"
-----------------------------------------------------------------------------
(* The run.  A failure ends it. *)
Current == Script[pos]

\* Where a step starts: with the balances, unless it makes no claim about them.
FirstPhase(k) ==
    IF k > Len(Script) THEN "reconstruct"
    ELSE CASE Script[k].kind \in {"send", "empty", "finish"} -> Script[k].kind
           [] OTHER -> "before"

Advance == pos' = pos + 1 /\ phase' = FirstPhase(pos + 1) /\ UNCHANGED verdict
Goes(next) == phase' = next /\ UNCHANGED <<pos, verdict>>
Throws(error) == verdict' = ClassifyFailure(error) /\ UNCHANGED <<pos, phase>>

At(p) == verdict = "running" /\ phase = p

\* Reads only: the cluster, the deployment and its governance.
Preflight ==
    /\ At("preflight")
    /\ Goes("setup")
    /\ UNCHANGED <<historyVars, seen, completed, faulted, unconfirmed, outcome>>

Setup ==
    /\ At("setup")
    /\ balance' = [balance EXCEPT ![Buyer] = @ + Supply]
    /\ Goes(FirstPhase(1))
    /\ UNCHANGED <<record, agreement, milestone, proof, vault, committed,
                   seen, completed, faulted, unconfirmed, outcome>>

SnapshotBefore ==
    /\ At("before")
    /\ before' = [before EXCEPT !.money = Snapshot]
    /\ Goes(IF Current.kind = "refuse" THEN "account" ELSE "send")
    /\ UNCHANGED <<historyVars, after, completed, faulted, unconfirmed, outcome>>

AccountBefore ==
    /\ At("account")
    /\ before' = [before EXCEPT !.state = agreement[Current.ix.on].state,
                                !.settled = agreement[Current.ix.on].settledTotal]
    /\ Goes("send")
    /\ UNCHANGED <<historyVars, after, completed, faulted, unconfirmed, outcome>>

Sending(k) == At("send") /\ k = pos

\* A step that is only sent is over when its transaction is.
Sent == IF Current.kind = "send" THEN Advance ELSE Goes("after")

\* The transaction is confirmed with the outcome the program gives it.  For a refusal,
\* assertProvenRefusal throws if it was accepted.
SendConfirms(k) ==
    /\ Sending(k)
    /\ IF Script[k].kind # "refuse" THEN Succeeds(k) /\ Sent
       ELSE IF ENABLED Execute(Script[k].ix) THEN Succeeds(k) /\ Throws("CustodyDefect")
       ELSE Fails(k) /\ Sent
    /\ UNCHANGED <<seen, completed, faulted, unconfirmed, inflight>>

\* sendExpectingSuccess after a submit request that failed; sendExpectingRefusal for
\* any error, which confirmBySignature returns at whatever level it sees it.
ReportedEarly(k) ==
    /\ Sending(k)
    /\ Cardinality(unconfirmed) < MaxUnconfirmed
    /\ (Script[k].kind = "refuse") = ~ENABLED Execute(Script[k].ix)
    /\ unconfirmed' = unconfirmed \cup {k}
    /\ inflight' = inflight \cup {k}
    /\ NeverLands
    /\ Sent
    /\ UNCHANGED <<seen, completed, faulted>>

\* The node's simulation rejects it, so nothing is sent and no signature resolves.
SimulationFails(k) ==
    /\ Sending(k) /\ Script[k].kind # "refuse"
    /\ ~ENABLED Execute(Script[k].ix)
    /\ verdict' = "TRANSACTION_CONFIRMATION_AMBIGUOUS"
    /\ NeverLands
    /\ UNCHANGED <<pos, phase, seen, completed, faulted, unconfirmed, inflight>>

\* A request fails while sending, whether or not the transaction took effect.
SendFails(k) ==
    /\ Sending(k)
    /\ Succeeds(k) \/ Fails(k) \/ NeverLands
    /\ verdict' = "TRANSACTION_CONFIRMATION_AMBIGUOUS"
    /\ faulted' = TRUE
    /\ UNCHANGED <<pos, phase, seen, completed, unconfirmed, inflight>>

ReadFails ==
    /\ verdict = "running" /\ phase \notin {"send", "finish"}
    /\ Throws("RpcError")
    /\ faulted' = TRUE
    /\ UNCHANGED <<historyVars, seen, completed, unconfirmed, outcome>>

SnapshotAfter ==
    /\ At("after")
    /\ after' = Snapshot
    /\ Goes("read")
    /\ UNCHANGED <<historyVars, before, completed, faulted, unconfirmed, outcome>>

Judge ==
    /\ At("read")
    /\ IF Outcome(Current) = "ok" THEN Advance ELSE Throws(Outcome(Current))
    /\ UNCHANGED <<historyVars, seen, completed, faulted, unconfirmed, outcome>>

EmptyVault ==
    /\ At("empty")
    /\ IF vault[Current.ix.on] = 0 THEN Advance ELSE Throws("CustodyDefect")
    /\ UNCHANGED <<historyVars, seen, completed, faulted, unconfirmed, outcome>>

FinishScenario ==
    /\ At("finish")
    /\ completed' = completed \cup {Current.ix.on}
    /\ Advance
    /\ UNCHANGED <<historyVars, seen, faulted, unconfirmed, outcome>>

\* Each history rebuilt by the indexer, against the account and the money paid.
Reconstructs(a) ==
    LET h == History(a)
    IN  /\ h # Refused
        /\ h.state = agreement[a].state
        /\ h.settled + h.refunded = agreement[a].settledTotal

ReconstructHistories ==
    /\ At("reconstruct")
    /\ IF \A a \in completed : Reconstructs(a) THEN Goes("accounting") ELSE Throws("CustodyDefect")
    /\ UNCHANGED <<historyVars, seen, completed, faulted, unconfirmed, outcome>>

Total(f, S) == FoldFunctionOnSet(+, 0, f, S)

FinalAccounting ==
    /\ At("accounting")
    /\ IF Total(vault, Agreements) = 0 /\ Total(balance, Wallets) = Supply
       THEN verdict' = "PASS" /\ UNCHANGED <<pos, phase>>
       ELSE Throws("CustodyDefect")
    /\ UNCHANGED <<historyVars, seen, completed, faulted, unconfirmed, outcome>>

Proceeds ==
    \/ Preflight \/ Setup
    \/ SnapshotBefore \/ AccountBefore
    \/ \E k \in DOMAIN Script : SendConfirms(k) \/ SimulationFails(k)
    \/ SnapshotAfter \/ Judge \/ EmptyVault \/ FinishScenario
    \/ ReconstructHistories \/ FinalAccounting

\* The run is over when it has a verdict.
Ended == verdict # "running" /\ inflight = {} /\ UNCHANGED runVars

RunNext ==
    \/ Proceeds
    \/ \E k \in DOMAIN Script : ReportedEarly(k) \/ SendFails(k)
    \/ ReadFails
    \/ \E k \in inflight : Lands(k)
    \/ Ended

RunSpec == RunInit /\ [][RunNext]_runVars
-----------------------------------------------------------------------------
(* recover, from the diagnostic of a run that failed.  It only reads, so it is a *)
(* function of the chain and of what the run recorded.                          *)
Failed == verdict \notin {"running", "PASS"}

\* Written once the run has a context: not for a failed preflight.
HasDiagnostic == Failed /\ phase # "preflight"

Scenarios == {PrimaryScenarios[k] : k \in DOMAIN PrimaryScenarios}

\* The steps of finished scenarios that were recorded as successes, and the refusals.
Successes ==
    {k \in 1 .. pos - 1 : Script[k].kind \in {"open", "value", "state"} /\ Script[k].ix.on \in completed}
Refusals == {k \in 1 .. pos - 1 : Script[k].kind = "refuse"}

\* The state the scenario's last value step left its agreement in.
FinalState(a) ==
    LET k == Max({k \in 1 .. pos - 1 : Script[k].kind = "value" /\ Script[k].ix.on = a})
    IN  Script[k].expect.state

RestsAsRecorded(a) ==
    agreement[a].state = FinalState(a) /\ IsTerminal(a) /\ vault[a] = 0

\* verifyProofBindings: the proof account and the ppv_core record it names.
BindingsHold(a) ==
    \A i \in DOMAIN History(a).proofs :
        /\ proof[a][i].status # "Absent"
        /\ Exists(<<proof[a][i].submitter, <<a, i>>>>)

\* Broken: a refusal need not be looked up.
VerifyRefusals_Trusting == "PASS"

VerifyRefusals ==
    LET unproven == Refusals \ refused
    IN  IF unproven = {} THEN "PASS"
        ELSE IF Min(unproven) \in landed THEN "CUSTODY_DEFECT" ELSE "HARNESS_DEFECT"

\* The histories, rebuilt as the run would have, and the evidence they name.
HistoriesHold ==
    /\ \A a \in Scenarios : Reconstructs(a) /\ BindingsHold(a)
    /\ DOMAIN History("milestones").milestones # {}
    /\ DOMAIN History("proofs").proofs # {}

Recover ==
    IF ~(Scenarios \subseteq completed) THEN "HARNESS_DEFECT"
    ELSE IF \E a \in Scenarios : ~RestsAsRecorded(a) THEN "CUSTODY_DEFECT"
    ELSE IF ~(Successes \subseteq landed) THEN "CUSTODY_DEFECT"
    ELSE IF VerifyRefusals # "PASS" THEN VerifyRefusals
    ELSE IF \E a \in Fixtures : vault[a] # 0 THEN "CUSTODY_DEFECT"
    ELSE IF ~HistoriesHold THEN "CUSTODY_DEFECT"
    ELSE "PASS"
-----------------------------------------------------------------------------
\* The matrix is right about the programs: every step it expects to succeed does, and
\* moves what it says, every negative is refused, and the histories agree.  A run
\* stops short of PASS only if a request failed or an outcome was reported early.
OnlyFaultsStopIt == Failed => faulted \/ unconfirmed # {}

\* A PASS is evidence: every agreement of the run is over with its money paid out and
\* every vault empty, every success is on chain, and so is every refusal that was not
\* reported early.  The fixture whose transactions nothing is read after, and which
\* the foreign milestone of a negative comes from, is so if nothing was.
PassIsEarned ==
    verdict = "PASS" =>
        /\ \A a \in Agreements : vault[a] = 0
        /\ \A a \in Agreements \ {"foreign-milestone-source"} : IsTerminal(a)
        /\ Successes \subseteq landed
        /\ Refusals \subseteq refused \cup unconfirmed
        /\ unconfirmed = {} =>
                /\ IsTerminal("foreign-milestone-source")
                /\ milestone["foreign-milestone-source"][0] # AbsentMilestone

\* "It held 3 funded units in a PPV vault across every unrelated scenario", and they
\* were stranded when the run stopped: whenever it stops now, only the vaults of the
\* scenario it was in hold anything.
StrandsOneScenario ==
    \A a \in Agreements :
        vault[a] # 0 =>
            \E k \in DOMAIN PrimaryScenarios :
                /\ PrimaryScenarios[k] = (IF a \in Fixtures THEN "proofs" ELSE a)
                /\ completed = {PrimaryScenarios[j] : j \in 1 .. k - 1}

\* Whatever happened to the run, the evidence recovered from it is as good as a PASS,
\* and better in one respect: every refusal in it is on chain.
RecoveryIsSound ==
    HasDiagnostic /\ Recover = "PASS" =>
        /\ Refusals = {k \in DOMAIN Script : Script[k].kind = "refuse"}
        /\ Refusals \subseteq refused
        /\ \A a \in Scenarios : IsTerminal(a)
        /\ \A a \in Agreements : vault[a] = 0

\* Recovery reports a defect of the program only when it finds one: a success that a
\* finished scenario recorded is on chain however early it was reported, because the
\* confirmed account was read after it, and no refusal of a finished run lands later.
RecoveryIsNotFooled == HasDiagnostic => Recover # "CUSTODY_DEFECT"
=============================================================================
