------------------------ MODULE TransactionLifecycle ------------------------
(***************************************************************************)
(* One call of sendExpectingSuccess or sendExpectingRefusal, by which the  *)
(* custody harness sends a transaction that may move tokens, against the   *)
(* RPC endpoint and the cluster behind it.  The submit request, every      *)
(* status read and the cluster interleave freely: a request can fail after *)
(* it took effect, a node can lag, a block can be abandoned.               *)
(*                                                                         *)
(* The transaction of attempt k is the one signed for it; its signature is *)
(* k.  Log fetching, pacing and error texts are left out.                  *)
(***************************************************************************)
EXTENDS Naturals

CONSTANTS
    MaxBlockhashRetries,    \* MAX_BLOCKHASH_RETRIES
    MaxPolls                \* status reads before CONFIRMATION_TIMEOUT_MS

ASSUME LifecycleAssumption == MaxBlockhashRetries \in Nat /\ MaxPolls \in Nat

Attempts == 0 .. MaxBlockhashRetries

VARIABLES
    mode,       \* what the caller expects: "success" or "refusal"
    pc,         \* where the call is: "prepare", "submit", "confirm" or "done"
    attempt,    \* blockhashAttempts
    caught,     \* what the submit request threw, "nothing" if it returned
    polls,      \* status reads made, in place of the clock
    verdict,    \* the classification returned or thrown, "none" before
    chain       \* chain[k]: where the cluster has transaction k

client == <<mode, pc, attempt, caught, polls, verdict>>
vars == <<client, chain>>

SubmitErrors == {"stale blockhash", "rate limit", "other"}
Classification ==
    {"PRE_SUBMISSION_BLOCKHASH_EXPIRED", "TRANSACTION_SUBMITTED_SUCCESS",
     "TRANSACTION_SUBMITTED_PROGRAM_FAILURE", "TRANSACTION_CONFIRMATION_AMBIGUOUS",
     "RPC_RATE_LIMIT", "RPC_PROVIDER_FAILURE", "CUSTODY_DEFECT"}

\* "unsent" until a node takes it; `err` is meaningful once it is in a block.
ChainStatus ==
    [at : {"unsent", "in flight", "processed", "confirmed", "expired"}, err : BOOLEAN]
Unsent == [at |-> "unsent", err |-> FALSE]
InFlight == [at |-> "in flight", err |-> FALSE]
Expired == [at |-> "expired", err |-> FALSE]
InBlock(status) == status.at \in {"processed", "confirmed"}

Init ==
    /\ mode \in {"success", "refusal"}
    /\ pc = "prepare"
    /\ attempt = 0
    /\ caught = "nothing"
    /\ polls = 0
    /\ verdict = "none"
    /\ chain = [k \in Attempts |-> Unsent]
-----------------------------------------------------------------------------
(* The call. *)
Finish(classification) == pc' = "done" /\ verdict' = classification

\* A fresh blockhash, signed: the signature is known before anything is sent.
PrepareTransaction ==
    /\ pc = "prepare"
    /\ pc' = "submit"
    /\ UNCHANGED <<mode, attempt, caught, polls, verdict, chain>>

\* An error that the call does not catch: from getLatestBlockhash, or from
\* getSignatureStatuses while the outcome is open.
RpcThrows ==
    /\ pc \in {"prepare", "confirm"}
    /\ Finish("unclassified")
    /\ UNCHANGED <<mode, attempt, caught, polls, chain>>

\* sendRawTransaction returns: a node has taken the transaction.
Accepted ==
    /\ pc = "submit"
    /\ pc' = "confirm"
    /\ chain' = [chain EXCEPT ![attempt] = InFlight]
    /\ UNCHANGED <<mode, attempt, caught, polls, verdict>>

\* Broken: retries whatever failed.
StaleBlockhash_AnyError ==
    /\ pc = "submit"
    /\ \E status \in {chain[attempt], InFlight} :
            chain' = [chain EXCEPT ![attempt] = status]
    /\ IF attempt >= MaxBlockhashRetries
       THEN Finish("PRE_SUBMISSION_BLOCKHASH_EXPIRED") /\ UNCHANGED attempt
       ELSE pc' = "prepare" /\ attempt' = attempt + 1 /\ UNCHANGED verdict
    /\ UNCHANGED <<mode, caught, polls>>

\* Refused before broadcast: the one failure that is retried.
StaleBlockhash ==
    /\ pc = "submit"
    /\ IF attempt >= MaxBlockhashRetries
       THEN Finish("PRE_SUBMISSION_BLOCKHASH_EXPIRED") /\ UNCHANGED attempt
       ELSE pc' = "prepare" /\ attempt' = attempt + 1 /\ UNCHANGED verdict
    /\ UNCHANGED <<mode, caught, polls, chain>>

\* Any other failure of the request, which may have taken effect all the same.
SubmitFails ==
    /\ pc = "submit"
    /\ pc' = "confirm"
    /\ caught' \in SubmitErrors \ {"stale blockhash"}
    /\ \E status \in {Unsent, InFlight} : chain' = [chain EXCEPT ![attempt] = status]
    /\ UNCHANGED <<mode, attempt, polls, verdict>>
-----------------------------------------------------------------------------
(* confirmBySignature, and what each caller makes of its answer. *)

\* What a status read shows: nothing yet, or what the cluster has.
Answers == {Unsent} \cup {s \in {chain[attempt]} : InBlock(s)}

\* Broken: a status counts as soon as there is one.
Resolved_Processed(status) == InBlock(status)

\* An accepted confirmation level, or an error at any level.
Resolved(status) == status.at = "confirmed" \/ (InBlock(status) /\ status.err)

\* A deadline with a status below the accepted level is `found`, and `timedOut`.
SuccessVerdict(status, timedOut) ==
    CASE InBlock(status) /\ status.err -> "TRANSACTION_SUBMITTED_PROGRAM_FAILURE"
      [] InBlock(status) /\ ~status.err /\ (caught # "nothing" \/ ~timedOut) ->
            "TRANSACTION_SUBMITTED_SUCCESS"
      [] ~InBlock(status) /\ caught = "rate limit" -> "RPC_RATE_LIMIT"
      [] OTHER -> "TRANSACTION_CONFIRMATION_AMBIGUOUS"

\* Broken: the client's exception is taken for a refusal.
RefusalVerdict_Thrown(status, timedOut) ==
    CASE caught # "nothing" -> "TRANSACTION_SUBMITTED_PROGRAM_FAILURE"
      [] caught = "nothing" /\ (timedOut \/ ~InBlock(status)) ->
            "TRANSACTION_CONFIRMATION_AMBIGUOUS"
      [] OTHER -> IF status.err THEN "TRANSACTION_SUBMITTED_PROGRAM_FAILURE"
                  ELSE "CUSTODY_DEFECT"

RefusalVerdict(status, timedOut) ==
    CASE ~InBlock(status) /\ caught = "rate limit" -> "RPC_RATE_LIMIT"
      [] ~InBlock(status) /\ caught = "other" -> "RPC_PROVIDER_FAILURE"
      [] caught = "nothing" /\ (timedOut \/ ~InBlock(status)) ->
            "TRANSACTION_CONFIRMATION_AMBIGUOUS"
      [] OTHER -> IF status.err THEN "TRANSACTION_SUBMITTED_PROGRAM_FAILURE"
                  ELSE "CUSTODY_DEFECT"

Verdict(status, timedOut) ==
    IF mode = "success" THEN SuccessVerdict(status, timedOut)
                        ELSE RefusalVerdict(status, timedOut)

\* Broken: no deadline.
Poll_Forever ==
    /\ pc = "confirm"
    /\ \E status \in Answers :
        IF Resolved(status)
        THEN Finish(Verdict(status, FALSE)) /\ UNCHANGED polls
        ELSE UNCHANGED <<pc, verdict, polls>>
    /\ UNCHANGED <<mode, attempt, caught, chain>>

\* The deadline is looked at after the status, so the last status read counts.
Poll ==
    /\ pc = "confirm"
    /\ \E status \in Answers :
        \/ Resolved(status) /\ Finish(Verdict(status, FALSE)) /\ UNCHANGED polls
        \/ /\ ~Resolved(status)
           /\ polls = MaxPolls
           /\ Finish(Verdict(status, TRUE)) /\ UNCHANGED polls
        \/ /\ ~Resolved(status)
           /\ polls < MaxPolls
           /\ polls' = polls + 1 /\ UNCHANGED <<pc, verdict>>
    /\ UNCHANGED <<mode, attempt, caught, chain>>
-----------------------------------------------------------------------------
(* The cluster. *)
Becomes(k, status) == chain' = [chain EXCEPT ![k] = status] /\ UNCHANGED client

Process(k, err) ==
    chain[k].at = "in flight" /\ Becomes(k, [at |-> "processed", err |-> err])

\* The block is voted for, or abandoned with its fork.
Confirm(k) == chain[k].at = "processed" /\ Becomes(k, [chain[k] EXCEPT !.at = "confirmed"])
Abandon(k) == chain[k].at = "processed" /\ Becomes(k, InFlight)

\* Never included before its last valid block height.
Expire(k) == chain[k].at = "in flight" /\ Becomes(k, Expired)

Settles == PrepareTransaction \/ Accepted \/ StaleBlockhash \/ SubmitFails \/ Poll

Call == Settles \/ RpcThrows

Cluster ==
    \E k \in Attempts :
        \/ \E err \in BOOLEAN : Process(k, err)
        \/ Confirm(k)
        \/ Abandon(k)
        \/ Expire(k)

Next == Call \/ Cluster

\* Requests settle and timers fire: the call moves on unless it threw.  Nothing is
\* assumed of the cluster.
Spec == Init /\ [][Next]_vars /\ WF_vars(Settles)
-----------------------------------------------------------------------------
TypeOK ==
    /\ mode \in {"success", "refusal"}
    /\ pc \in {"prepare", "submit", "confirm", "done"}
    /\ attempt \in Attempts
    /\ caught \in (SubmitErrors \ {"stale blockhash"}) \cup {"nothing"}
    /\ polls \in 0 .. MaxPolls
    /\ verdict \in Classification \cup {"none", "unclassified"}
    /\ chain \in [Attempts -> ChainStatus]

\* "Never resend": however requests fail, of all the transactions one call signs at
\* most one ever reaches a node, so the tokens move at most once.
OneReachesTheNetwork ==
    \A j, k \in Attempts :
        chain[j].at # "unsent" /\ chain[k].at # "unsent" => j = k

\* PRE_SUBMISSION_BLOCKHASH_EXPIRED says that "nothing was broadcast": a caller that
\* repeats the operation after it cannot be doing it twice.
ExpiredBeforeSubmission ==
    verdict = "PRE_SUBMISSION_BLOCKHASH_EXPIRED" =>
        \A k \in Attempts : chain[k].at = "unsent"

\* When the submit request returned, a success, or a custody defect, is reported only
\* of a transaction that is confirmed without error, which no fork takes back.
ConfirmedWhenSubmitted ==
    /\ caught = "nothing"
    /\ verdict \in {"TRANSACTION_SUBMITTED_SUCCESS", "CUSTODY_DEFECT"}
    => chain[attempt] = [at |-> "confirmed", err |-> FALSE]

\* "A refusal is now only a refusal when the signature is found on chain carrying an
\* error", and success and defect when it is found without one: no rate limit, reset
\* socket or expired blockhash becomes a test result.
VerdictsComeFromBlocks ==
    [][verdict' # verdict =>
        /\ verdict' = "TRANSACTION_SUBMITTED_PROGRAM_FAILURE" =>
                InBlock(chain[attempt]) /\ chain[attempt].err
        /\ verdict' \in {"TRANSACTION_SUBMITTED_SUCCESS", "CUSTODY_DEFECT"} =>
                InBlock(chain[attempt]) /\ ~chain[attempt].err]_vars

\* Retries and polling are bounded: the call returns or throws whatever the endpoint
\* and the cluster do.
CallReturns == <>(pc = "done")

\* transaction-lifecycle.mjs: TRANSACTION_SUBMITTED_SUCCESS is "Landed, confirmed,
\* `err == null`".
SuccessIsConfirmed ==
    verdict = "TRANSACTION_SUBMITTED_SUCCESS" =>
        chain[attempt] = [at |-> "confirmed", err |-> FALSE]
=============================================================================
