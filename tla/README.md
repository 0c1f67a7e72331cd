# PPV, specified

A TLA+ verification of the PPV programs and tools: what is modelled, what TLC
checks, what TLAPS proves, and what is left. PPV is a set of three Solana
programs (`ppv_core`, `ppv_escrow`, `ppv_commerce`), a TypeScript SDK, a read-only
indexer, and a body of operational scripts that drive the programs on devnet and
publish what they saw as evidence.

## 1. The system

| Part | State it keeps | Operations | Talks to |
|---|---|---|---|
| `ppv_core` | one `ProofRecord` per (authority, id) | `create_proof`, `revoke_proof` | called by wallets, and by `ppv_escrow` over a CPI |
| `ppv_escrow` | `EscrowAgreement`, `Milestone`, `Proof` accounts, one vault per agreement | sixteen instructions: open, select counterparty, fund, cancel, mark completed, settle, refund, open/resolve dispute, create/submit/approve/reject/settle milestone, submit/approve/reject proof | `ppv_core` (CPI to create, account read before paying), SPL token program (CPI), the `Clock` |
| `ppv_commerce` | one `Agreement` per negotiation: version, two hashes, two signatures, expiry | create, propose revision, sign, cancel | the `Clock`; the escrow never reads it |
| SDK builders and decoders (`sdk/src`) | none | build instructions from what a client read; decode accounts; derive addresses | the programs, by transactions |
| SDK receipts (`sdk/src/escrow/{events,receipts}.ts`) | none; a history is rebuilt from receipts | receipt of an event, deduplication, reconstruction, comparison with the account | the events of `ppv_escrow` |
| SDK commerce binding, invoice | none | relate an escrow to an executed contract; status of an invoice | histories and decoded accounts |
| SDK credential and reputation | none | the seal of an agreement, from its history and from normalised events | histories and events |
| Indexer (`indexer/src`) | an in-memory store of events per agreement | list signatures, page, fetch, extract, replay | RPC endpoint, SDK receipts |
| Transaction lifecycle (`scripts/lib/transaction-lifecycle.mjs`) | the attempt, the known signature, the deadline | `sendExpectingSuccess`, `sendExpectingRefusal`, `confirmBySignature` | RPC endpoint, cluster |
| RPC read client (`scripts/lib/rpc.mjs`) | retry counter | `call` with bounded retries of reads on 429 | RPC endpoint |
| Custody harness (`custody-runner.mjs`, `custody-invariants.mjs`, `devnet-escrow-custody.mjs`) | balance snapshots, completed scenarios, recorded signatures | a matrix of 93 transactions on ten agreements, each bracketed by reads | transaction lifecycle, RPC client, indexer |
| Evidence recovery (`recover-devnet-escrow-custody-evidence.mjs`) | none; the diagnostic of the run that stopped | look up everything recorded, on chain | RPC client, indexer |
| Multisig governance (`create-escrow-custody-multisig.mjs`, `verify-custody-governance.mjs`, `squads.mjs`) | the create key file | preflight, execute, verify | RPC endpoint, Squads program |
| Release and readiness checks | files | one-shot scripts | RPC endpoint, file system |

What is hard in each, and what makes it correct:

* **`ppv_core`** is small, but everyone may call it at any time, in between two
  escrow instructions that rely on it. Correct: a record is created once, only its
  author revokes it, and neither is ever undone.
* **`ppv_escrow`** is where the difficulty is. An instruction is atomic, but any
  signer may land any instruction between any two of another, and money leaves a
  vault along four paths (settle, refund, concession, tranche) that share two
  counters. A bounty has no counterparty for part of its life; a milestone
  contract ends by counting; approved evidence may be revoked before it is paid
  on; anyone may transfer tokens into a vault. Correct: the vault always covers
  what is owed; every token that leaves goes to a party, and is in the ledger; an
  ended agreement has paid out everything; no money is ever stuck; the terms are
  frozen once money rests on them; evidence cited by a payment is this agreement's,
  decided by the other party, and stands.
* **`ppv_commerce`** is a negotiation under an optimistic lock: what is hard is the
  transaction that lands late. Correct: nobody is bound to a document they have not
  seen in exactly that version; no revision is lost; expiry and ending are final.
* **Transaction lifecycle**: a submit request that fails may have taken effect, a
  node may lag, a block may be abandoned. Correct: a value-moving operation is
  never sent twice, and every verdict is about something that happened on chain.
* **Receipts and indexer**: receipts arrive in any order, twice, or not at all.
  Correct: the rebuilt history does not depend on the order, a complete one agrees with
  the account, and one with gaps overstates nothing. Paging reads a history
  backwards while it grows, from an endpoint that rate limits: nothing may be
  skipped or read twice, and no retry may go on for ever.
* **Seals**: two pipelines claim the same thing about an agreement, from different inputs.
* **Binding**: two accounts of two programs, read one after the other, and a verdict
  that is used later.
* **Harness and recovery**: every step expects what all the earlier ones left, reads
  bracket a send, and a run may stop anywhere with money in vaults. Correct: the
  expectations are right about the programs, a PASS is earned, an interruption strands
  little, and recovered evidence is worth as much as evidence.
* **Ceremony**: dies and is rerun around a transaction that may have landed. Correct: what is
  created was reviewed, and exists once; what the verifiers accept cannot be moved by others.

`PROJECT.json` lists every hazard at its line with the properties that cover it.

## 2. The modules

| Module | What it is |
|---|---|
| `PpvCore` | `ppv_core`. `record[<<authority, id>>]` is the account at the address derived from those seeds, so a record's authority is its address. |
| `PpvEscrow` | `ppv_escrow`, EXTENDS `PpvCore`. One action per instruction, named after it; each `require_*` of the account types is a predicate of the same name without the prefix (`require_fundable` is `Fundable`). `CloseOut` is the common body of the three paths that pay out all that is left. |
| `PpvEscrowSafety` | the properties of the escrow, and the refinement mapping to `EscrowContract`. |
| `EscrowContract` | the abstract specification: what the two parties rely on, with stages, disputes, tranches and evidence left out. |
| `MCPpvEscrow` | instances for TLC. |
| `PpvEscrowProofs` | type correctness of the escrow, what each kind of account write leaves behind, and every step of the programs as one of a dozen shapes, field by field. |
| `PpvEscrowGuarantees` | theorems about custody, single steps and evidence. |
| `PpvEscrowSchedule` | theorems that rest on adding up, and the refinement. |
| `EscrowReceipts` | the SDK's `receipts.ts`: a history rebuilt from a set of receipts, or refused. Pure operators; a constant module. |
| `EscrowHistory`, `MCEscrowHistory` | EXTENDS `PpvEscrow`: every instruction also emits its events, as a transaction in a slot; the indexer's replay; and the properties that compare what it rebuilds with the accounts. |
| `PpvCommerce` | `ppv_commerce` on one agreement account (no instruction touches two). |
| `CommerceClients`, `MCCommerceClients` | the wallets around it: a client reads the account, builds an instruction from what it read, and the transaction lands later, in any order, or never; and the properties. |
| `TransactionLifecycle` | one call of `sendExpectingSuccess` or `sendExpectingRefusal` against an endpoint and a cluster; and its properties. |
| `TransactionLifecycleProofs` | its theorems. |
| `EscrowSeals` | EXTENDS `EscrowHistory`: the seal of an agreement, by `credential.ts` from its history and by `reputation/` from its events; and how the two compare. |
| `EscrowHistoryProofs` | theorems of `EscrowHistory` and `EscrowSeals`. |
| `ChainReads`, `MCChainReads` | one `replayAgreement`: paging with its cursor and limit, transactions one by one, and the request with its retries, while the history grows; and its properties. |
| `CustodyScript` | the custody matrix as data: a sequence of steps, each an instruction with what must move and what must then be read. A constant module, instantiated by `CustodyRun`. |
| `CustodyRun`, `MCCustodyRun` | EXTENDS `EscrowHistory`: the harness executes the script against the programs, with requests that fail and outcomes reported early, down to its verdict; `Recover` is the recovery script; and the properties. |
| `CustodyGovernance`, `MCCustodyGovernance` | the ceremony, the multisig it creates, the verifiers of its policy; and the properties. |
| `CommerceBinding` | EXTENDS `CommerceClients`: `verifyTermsBinding` of any escrow against the contract as it evolves; `MCCommerceClients` extends it. |
| `CommerceProofs`, `GovernanceProofs`, `ChainReadsProofs` | theorems of `CommerceBinding` and what it extends, of `CustodyGovernance`, and of `ChainReads`. |

**How programs become actions.** A Solana instruction either takes effect as a whole
or leaves every account alone, so a failed `require!` is a disabled action, an
instruction's CPIs are part of its action (`SubmitProof` takes `CreateProof` as a
conjunct; `Settle` moves the tokens), and concurrency is the interleaving of
instructions of different signers. Signers, destinations, citations and the core
record presented are all inputs that the environment picks freely, whether or not
the guards accept them. An account's fields are one record, written back whole
(`WriteBack`), as the program serialises it.

**What data became.** Wallets and agreements are model values. A PDA is the tuple of
its seeds, so two addresses are equal when their seeds are; SHA-256 is taken to be
collision-free (`CoreProofId`). Hashes come from a set with a distinguished zero,
because the programs refuse the zero hash. `Default` is `Pubkey::default()`, which
stands in `counterparty` of a bounty and in `settlement_proof` when nothing is cited.
`MaxMilestones` and `MaxProofs` stand for the u32 limits of two indices, and the
actions stop there as `checked_add` does.

**The environment of the escrow.** `Donate` is a plain token transfer into a vault and
`CoreStep` a direct call of `ppv_core`; neither needs the escrow's consent. A wallet
that could be a party but never signs is a wallet that takes no step.

**Events and receipts.** In `EscrowHistory` each action of `PpvEscrow` is conjoined with the transaction it
commits: the events it emits, in order, and how many inner instructions it made before
them (which decides how two annotations of one slot compare). A receipt is an event with its
coordinates. The store keys on the receipt id, which is a function of them, so receipts are a set:
order and duplication of delivery cannot show. Of the id only its comparison with others is
kept (`Places`). A history replayed with gaps is `Reconstruct` of the receipts of some of
the transactions, because `replayAgreement` passes over a transaction it cannot fetch.

**The environment of a call.** `Process`, `Confirm`, `Abandon` and `Expire` are the
cluster: a transaction gets into a block, the block is voted for or abandoned, or the
blockhash runs out. A request that fails may or may not have reached the node; a
status read shows nothing, or what the cluster has at that moment. The one assumption
is the code's own (`isPreSubmissionBlockhashExpiry`): a request that fails with "blockhash not
found" broadcast nothing.

**The custody run.** `Script` is the run as the source writes it: `Open`, `Funding`, `Payout`, `Refuse` and the
other constructors stand for `openAgreement`, `valueStep`, `milestoneUpdate`, `submitProof`, `decideProof` and
`attemptRefusal`, with the accounts that the instruction builders put in. `CustodyRun` gives each
step its reads in order (balances, account, send, balances, account) and lets a request fail at each. The
transactions run against the actions of `PpvEscrow` themselves: `Execute` dispatches on the
instruction and a refusal is an action that is not enabled. The variables of the programs are the confirmed state, which the
harness reads at; a transaction that the sender reports on a weaker status (`SuccessIsConfirmed` below) is
`inflight`, and lands later, in any state, or never. `Recover` reads only, so it is an operator evaluated in every state
that a run can stop in, its answer being the verdict it would publish.

**The ceremony.** A key that `Keypair.generate` returns names the multisig derived from it. A process may die before
each request and after it; a transaction it sent may land after the next process started. One process runs
at a time, and the key file is not removed by hand. Squads is external: who can pass a
proposal (`CanPass`) is modelled from the permissions and threshold these scripts decode, and who can change a configuration without one
(`Controls`) from what `create-escrow-custody-multisig.mjs:525-527` says of a config authority. The ceremony creates its multisig without; the
verifier reads any address it is given, so multisigs of any configuration and any config authority may appear at addresses of their
own (`CreatedElsewhere`). The three scripts each have a roster, written as the literal it is: `CUSTODY_MEMBERS`, `NON_CUSTODY_MEMBERS`, `EXPECTED_MEMBERS`.

**Reading the chain.** The n-th transaction of an agreement has signature n, newest listed first. The endpoint answers
consistently (one node), the history may grow between any two requests up to `MaxChain`, a listed transaction
may come back null, and each answer may be a 429 with any of the headers in `RetryAfterHeaders`.

## 3. What is checked

| Run | Instance | Shows |
|---|---|---|
| `escrow`, money | 1 agreement, 3 wallets, amounts 0..3, up to 3 tranches, 3 tokens each, transfers into the vault by an outsider | `TypeOK`, `VaultCoversDebt`, `EndsPaidInFull`, `ScheduleAddsUp`, `LiveHasExit`, `TermsAreFrozen`, `DisputeFreezes`, and the refinement `ImplementsContract` |
| `escrow`, evidence | 1 agreement, 2 wallets, amounts up to 1, 2 proofs, 1 tranche, direct calls of `ppv_core` by both | `EvidenceIsAnchored`, `DecisionsAreFinal`, `PaymentsRestOnLiveEvidence` |
| `escrow`, pair | 2 agreements between 2 wallets in opposite roles, 1 proof each | `CitationsAreSound`, `PaymentsMatchLedger` |
| `commerce_clients` | 3 wallets (2 negotiate), 2 contents x 1 terms besides zero, 3 versions, 2 transactions in flight, 3 instants, every escrow over those wallets and hashes | `SignaturesAreCurrent`, `NobodyIsBoundUnseen`, `NoLostUpdate`, `ClosedStaysClosed`, `BindingIsForGood` |
| `transaction_lifecycle` | both kinds of call, the code's one retry, 4 status reads | `OneReachesTheNetwork`, `ExpiredBeforeSubmission`, `ConfirmedWhenSubmitted`, `VerdictsComeFromBlocks`, `CallReturns` |
| `escrow_history` | 1 agreement, 2 wallets, 2 tranches, 1 proof, 9 transactions, or 8 with a pair in one slot, any one transaction missing | `HistoryMatchesAccount`, `AnnotationsAreHome`, `GapsDoNotInvent`, `SealsAreTrue`, `SealsOnlyRise` |
| `custody_run` | the whole matrix, a failure at any request, 1 outcome reported early | `OnlyFaultsStopIt`, `PassIsEarned`, `StrandsOneScenario`, `RecoveryIsSound`, `RecoveryIsNotFooled` |
| `custody_governance` | 2 keys, 4 runs of the ceremony, 4 people, every configuration of up to 3 members; a multisig made elsewhere with no config authority, a custody signer or a treasury signer | `CreatedWasReviewed`, `OneMultisig`, `CustodyIsSeparate`, `VerdictsAgree` |
| `chain_reads` | up to 5 transactions, pages of 2, a limit of 4, 2 retries, every kind of header | `ReplayIsComplete`, `RetriesAreBounded`, `ReplayEnds` |
| `escrow_tie` | as `escrow_history`, 6 transactions with a pair in one slot | refutes `MilestoneStateIsLastStep` |
| `escrow_proof_address` | 1 agreement, 2 wallets, 2 proofs, direct calls of `ppv_core` | refutes `NextProofAddressIsFree` |
| `transaction_confirmed` | as `transaction_lifecycle` | refutes `SuccessIsConfirmed` |
| `escrow_seals` | as `escrow_history`, 7 transactions, no tie | refutes `SealsAgree` |
| `custody_authority` | as `custody_governance` | refutes `AcceptedIsSeparate` |

`escrow` is one run over three families of behaviours, which `MCPpvEscrow` bounds separately (`MoneyOfOne`, `EvidenceOfOne`, `EvidenceOfTwo`):
all its properties are checked in all three, and the table says in which one each is at work.
`custody_governance` likewise follows either the ceremony or a multisig of another make, because a verdict is about one account.

**Why the bounds are enough.** Three tranches are the fewest where paying one leaves
both a paid and an unpaid one besides the one being paid, and amounts up to 3 let
a schedule be incomplete, uneven or a single tranche. Three wallets give a sponsor, a
payee and one who is neither (a transfer from outside; a bounty's other candidate).
Two proofs let one be decided, revoked or taken while the other is cited; with a pair of agreements one
proof per agreement suffices to confuse the two. Nine transactions are what the longest story with three
kinds of payment receipts needs: open, two tranches, fund, submit, approve, settle one, dispute, refund
the rest; a tie multiplies the histories, so one that has a tie is a transaction shorter. A missing newest transaction
besides another is the same reading one state earlier. In the negotiation two contents
restore an earlier document at version 3 (the case in which only the version tells
a late signature from a current one), and two transactions in flight are two
revisions, two signatures or one of each racing. `Ttl = 1` with three instants has a signature
before, at and after expiry. In a call `MaxBlockhashRetries = 1` is the code's value and
`MaxPolls` stands for the deadline: three reads below the accepted level and a last one
at the deadline. The custody run has no bound of its own: the script is the
source's, of 110 steps, and `MaxTransactions` is above what it commits; one early outcome at a
time is what the short window between a processed and a confirmed block allows a sequential run. Two keys are enough for
a second ceremony to create a second multisig if it could, and four runs are a preflight, an execution
that dies, and a rerun of each. Four people are the three custody signers and one that signs only for the other programs, so that an
overlap of none, one or two is possible. Pages of 2 over up to 5 transactions with a limit of 4 have a full last page, a short one,
growth that shifts nothing because the cursor is a signature, and a history over the limit.

**Symmetry** is used where only safety is checked: the negotiating wallets, and the keys a ceremony may generate. **Deadlock** is
checked in `custody_run`, where a run without a verdict must go on. Elsewhere it is not: an agreement that is over accepts
nothing, a clock at its bound stops, and a call or a replay that returned is done.

**Fairness** is assumed in two places. `WF_vars(Reads)` in `ChainReads`: each request is answered or rejected
(`fetch` has timeouts) and the process runs; an endpoint that answers 429 for ever is
allowed, and so is a history that grows up to its bound. `WF_vars(Settles)` in `TransactionLifecycle`: the call is
one asynchronous function; each of its steps awaits an HTTP request, which returns
or fails (`fetch` and web3.js have timeouts and a dead socket is an error), or a timer. Nothing
is assumed of the cluster: `CallReturns` holds if it never processes anything. The programs have no fairness:
nobody is obliged to sign. That no agreement is stuck is therefore the
invariant `LiveHasExit`, about what is enabled, and not a liveness property.

### Disagreements with the sources

* `state/proof.rs:66-68` says an id minted through escrow "can never collide with one a
  wallet chose for itself". The id is computable and `create_proof` takes any id, so a
  wallet can choose that one: `escrow_proof_address`.
* `receipts.ts:536-537` says a tranche's state is "the state its last step reported". Steps in the same slot
  are folded in the order of a hash, although each event carries both sides of its own transition, so an
  approved tranche may be reported Submitted: `escrow_tie`. `HistoryMatchesAccount` shows that this is the
  only thing in which a complete history may differ from the account. (A history with gaps may be out of
  date in more: a bounty whose assignment is missing is reported with the default address as its payee.)
* `transaction-lifecycle.mjs:50-51` documents success as "Landed, confirmed". After a failed
  submit request the deadline also reports a merely processed transaction as a success
  (line 291 ignores `timedOut`; line 404 has the same gap for `CUSTODY_DEFECT`):
  `transaction_confirmed`. `ConfirmedWhenSubmitted` shows that the other path is right. `custody_run` carries
  the consequence on: such an outcome can stop a run, but falsifies neither a PASS nor recovered evidence.
* `credential.ts:17-19` says the credential agrees with `deriveSealFacts` "by construction", and lines 67-68, like `docs/credentials.md:33-34`, that "an
  approved milestone" confirms. The credential counts a paid milestone only, the reputation an approved one too: `escrow_seals`. What both do say of a whole history is
  true (`SealsAreTrue`), and this is the only difference (`SealsDiffer`, proved).
* `verify-custody-governance.mjs:6-10` checks that custody is out of reach of the other programs' governance. The config authority of the account is decoded
  (`squads.mjs:169`) and compared with nothing, so an account whose configuration one key may rewrite is accepted if its members, threshold and permissions are the declared
  ones: `custody_authority`. `CustodyIsSeparate` shows what does follow from acceptance: nobody else can pass a proposal, and over the multisig that the ceremony created,
  which has no config authority, nobody else has any other hold.

Smaller observations, which the properties state as the code has them:

* `instructions/cancel.rs:10-12` says the vault is empty in `Open` "by construction". Anyone can transfer to it, and a
  cancellation leaves those tokens there; the escrow's properties hold with them.
* `docs/credentials.md:48` says that without chain verification the seal cannot rise above `recorded`;
  `resolveSealState` looks at it last, so a settled agreement is sealed `settled` either way (`ResolveSealState`).
* A PASS requires that every refusal was reported; recovery also requires each on chain. So
  recovery asks more than the run it recovers (`PassIsEarned`, `RecoveryIsSound`).
* A value step whose balances do not move as expected throws an `InvariantViolation`, which
  `classifyFailure` files under `RPC_PROVIDER_FAILURE`.
* `signatureHistory` refuses a history of exactly `maxSignatures` entries when its page did not meet
  `until`, with a message that says there are more.

## 4. What is proved

Every theorem is about all values of the constants that satisfy the named assumptions below; "run" in brackets says
where TLC checks the same property on an instance. TLC also checked each inductive invariant on an instance (that of histories with `Walk` as the path whose existence it states).

### The escrow

Sixteen instructions, a transfer from outside and a direct call of `ppv_core` would give each theorem eighteen cases. Instead
`PpvEscrowProofs` describes, field by field, the ways in which a step can change the accounts of an agreement (`Opened`, `Chosen`,
`Deposited`, `Moved`, `Closed`, `Scheduled`, `Worked`, `TranchePaid`, `ProofSubmitted`, `ProofDecided`, `Donated`), and `StepTouches` proves that each
step of `Next` is one of them on a single agreement and leaves all others alone, or touches only core records (`CoreOnly`). All the
theorems below go by these shapes; `Closed` is one arithmetic argument for the three paths of `CloseOut`, `TranchePaid` for the fourth path out of a vault.

* `TypeCorrect`: `Spec => []TypeOK`, inductive as it stands (`PpvEscrowProofs`).
* `VaultAlwaysCoversDebt`: the vault of a *live* agreement covers what remains. Not inductive: an `Open`
  agreement with something in `settledTotal` would be funded short. The invariant is `CustodyInv`, where `Books(a)` says what the ledger and
  the vault are in each stage, and `Deal(a)` that an agreement is for something, between two different parties,
  of which the second is named before work can be completed or disputed.
* `PaymentsAlwaysMatch`, `TermsStayFrozen`, `DisputesFreeze`: action properties, from `CustodyInv` and the shapes. `Deal` is what makes a payment go to
  a *named* party: only a bounty has none, and it is named before it can be paid.
* `EvidenceStaysAnchored`, `DecisionsStayFinal`, `CitationsStaySound`, `PaymentsNeedLiveEvidence`: from `EvidenceInv`, which adds that indices are dense (`Anchored`, `Dense`) and citations
  are sound (`Cited`). Density is needed: the next proof or tranche goes to the slot that the counter names, and
  only because that slot is unused does no decision or citation of an earlier one change. Core records only go from active to revoked, whoever calls `ppv_core`, so an
  anchor never goes away.
* `ScheduleAlwaysAddsUp` and `AlwaysEndsPaidInFull` (`PpvEscrowSchedule`): from `ScheduleInv`. `Tranches(a)` says that the two totals are the sums, and the counter
  the number, of the tranches they summarise. Two further facts make it inductive: each tranche is worth
  more than zero, and nothing is paid before funding. A milestone contract ends when the counter of paid tranches
  meets the number of tranches; that then *all* the money is gone is because the paid slots are all the slots, and the schedule was complete when it was funded.
  Sums are written here as cardinalities of sets of tokens: changing one summand moves a pile in or out of a disjoint union, so the lemmas (`OnePile` and those after it) need no induction.
* `ExitsStayOpen`: no agreement that holds money is stuck. It says of the guards what `LiveHasExit` says with ENABLED, for signers that exist: a
  `Funded` or `Completed` agreement can be refunded by its payee, a `Completed` one settled and a `Disputed` one conceded by either party, an unclaimed bounty
  given a payee, and the vault and the ledger allow the payment (`CanCloseOut`). It takes all of `ScheduleInv`: `Books` for the vault, `Deal` for the two
  parties, and `Tranches` for that something is left to pay.
* `AlwaysImplementsContract`: the refinement of `EscrowContract`. `SeenThroughMapping` gives the abstract state of an agreement, `ContractSteps` the abstract step
  (or stutter) that each shape maps to. It needs `ScheduleInv`: the last tranche closes the abstract contract only because it pays the rest.

### Histories and seals

`EscrowHistoryProofs`, for any number of transactions, agreements, tranches and proofs, and however slots and receipt ids fall.

* `HistoriesAreTheEscrows`: a history is a behaviour of the programs, so the theorems above hold of it.
* `HistoryAlwaysMatches` and `AnnotationsAlwaysHome`: what the reconstruction makes of all the receipts.
* `GapsNeverInvent`: what it may make of them when one is missing.
* `SealsAreAlwaysTrue` and `SealsAlwaysRise`: what the two pipelines to a seal say, with all receipts and with gaps; `SealsDifferOnApprovedTranches`: that they differ in one
  fact only, exactly while an approved tranche is all that shows the other party's consent.
* `NoReadingEverOverstates`: the last two for *any* subset of the transactions, where the run lets one or two be missing.

The invariant is `HistoryInv`. `Chain` says how slots and ids may fall; `Told(a)` says what the receipts of an agreement say about its
accounts, part by part: `PathTold` (the transitions make one path from creation to the account's state, and each annotation was recorded at the state it
names, or in the slot of the next transition), `MovesTold` (which event moves to which state), `MoneyTold` (the amounts paid
add up to the ledger), `PayeeTold`, `ProofsTold`, `TranchesTold` and `DisputesTold`. No property that a run checks is inductive, because each looks at the *result* of
a reconstruction; `Told` looks at the receipts only, and is proved per transaction: `Adds(a, N)` says which receipts a step adds, and
each part of `Told` is kept by them.

From `HistoryInv` to the properties is an argument about `Reconstruct` in one state. `Walk` and the fold of the amounts are recursive, and no induction
theorem can be instantiated here. Instead a walk is *compared* with the path that `PathTold` gives: if they differed there would be a least position where they do
(`NatMin`, from `WFMin` of the natural numbers), and the one before it determines it. Sums are cardinalities of sets of tokens, as above. That a partial history
overstates nothing then needs no account of what is missing: payments read are a subset of the payments made, so their sum is at most the ledger;
an ending by payment is the last transition of the whole path; and the facts of a seal are existential over events, so fewer events give a lower seal.

### The negotiation

* `SignaturesStayCurrent`, `NobodyIsEverBoundUnseen`, `UpdatesAreNeverLost`, `ClosedStaysClosedForever`, `BindingsAreForGood` (and the program's type invariant,
  `AccountIsTyped`) in `CommerceProofs`, for any number of transactions in flight. The
  invariant `NegotiationInv` is about those: each was built from a document no newer than the account's, and from the
  account's own if the version is still the same (`InFlight`). So the version alone, which is all that the program compares, decides
  whether a late transaction is about the document that is there. `Slot` says the same of a signature once on the account, `Standing` what else holds in each state.

### Sending, reading, governing

* `TransactionLifecycleProofs`, for any number of retries and polls: `NeverSentTwice` and `SafeToRepeat` from `SubmissionInv` (transactions
  other than the current attempt's are unsent, and the current one is unsent until the request is past); `VerdictsAreFound`, an action property, and
  `ReportedIsConfirmed`, which needs that a confirmed transaction is never taken back.
* `ChainReadsProofs`, for histories, pages and limits of any size: `RetriesAreAlwaysBounded` and `ReplayIsAlwaysComplete` from `ReplayInv`. `Gathered`: what
  was collected runs downwards without a gap from a point no older than the start of the replay to just above the cursor. `Replayed`: what was read so far is the events
  of a prefix of it, reversed. The sequences are handled as `Down(top, n)`, whose concatenation, cutting and reversal are the module's lemmas.
* `GovernanceProofs`, for any number of runs, keys and people: `AlwaysReviewedFirst` and `AlwaysOneMultisig` from `CeremonyInv` (`OneKey`: the key file is written once, by a preflight, and
  all that is sent, may land or exists is of that key); `CustodyIsAlwaysSeparate`, from what the policy demands of
  thresholds and members, from the rosters themselves (`OneShared`), and from `Autonomous`: what the ceremony created never gets a config authority. `AcceptedInv` keeps what was known of an
  account when it was read.

### Assumptions

On the escrow: `CreatorAssumption` (an agreement's address fixes its creator), `DefaultAssumption` (the default key is no wallet and no account),
`AmountAssumption`, `CallerAssumption`, `LimitAssumption`, `CoreProofIdAssumption`, `ZeroHashAssumption`. On the negotiation: `CommerceAssumption`, `SlotAssumption` (an empty slot
is no signature) and `ClientAssumption`. `LifecycleAssumption`; `ReaderAssumption` (sizes are positive, headers carry numbers); `GovernanceAssumption` (the ceremony's
addresses are nobody else's, and none is the absent key). TLC evaluates them all on the instances.

### Model-checked only

`VerdictsAgree` compares three decision procedures on literal rosters, account by account; TLC goes through all the accounts.
`CallReturns` and `ReplayEnds` are liveness under fairness, out of the prover's reach. `LiveHasExit` uses ENABLED; the guards that it
unfolds to are `ExitsStayOpen`, so what TLC alone shows is that nothing else in those actions disables them. The five properties of `custody_run` depend on ENABLED too, because a
refusal is an instruction that is not enabled, and on the script's 110 literal steps, each of which must be executed to know what the next one finds.

## 5. What is left out, and why

Timestamps of the escrow (recorded, never compared), rent and the lamports branch of `create_vault`,
the choice of mint and token program (every account constraint pins them to the
agreement's), and keys that cannot sign standing as parties. `EscrowHistory` puts one instruction in a
transaction, and the event-authority check of the extraction is left out. A malformed account cannot be presented: Anchor's owner,
discriminator and seeds checks are what makes an account a function of its address here.

Account decoders, address derivation, byte layouts, Base58, canonical JSON, redaction, endpoint rules and secret
handling are pure functions of bytes and strings, for which the repository's fixtures say more. Of the RPC client the request is
modelled and the parsing of its answers is not. The invoice composition compares a document with a history in one pass: what it
reports is right when the history is. Of the reputation the events of `ppv_core` and `ppv_commerce`, the per-participant
receipts and the metadata are field-by-field copies; only the seal relates them to anything. `devnet-smoke.mjs` and
`devnet-lifecycle.mjs` are short straight lines of instructions which the custody matrix contains or exceeds, and
`recover-escrow-evidence.mjs` recovers the first of them. Release, readiness and deployment
checks compare files and hashes with chain answers in one pass. The harness's evidence files, its wording and the
lamports it funds wallets with carry no control. The executable reference model under the property tests is a second
model of what `PpvEscrow` models.

## 6. Plan

Every safety property that needs neither ENABLED nor literal data is proved, for `PpvEscrow`, `EscrowHistory`, `EscrowSeals`,
`CommerceBinding`, `TransactionLifecycle`, `CustodyGovernance` and `ChainReads`. When the programs or the tools change:

1. An instruction that is new or changed is a new action of `PpvEscrow`, its transaction in `EscrowHistory`, its shape in `PpvEscrowProofs`, and the receipts it
   adds in `EscrowHistoryProofs`. If it fits one of the shapes, the theorems about custody and evidence need no further case.
2. The parts listed in section 5 would come next, the extraction of events from a transaction (`indexer/src/events.ts`) first: it decides which
   transactions a history may be built from.
