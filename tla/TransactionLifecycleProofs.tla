-------------------- MODULE TransactionLifecycleProofs --------------------
(***************************************************************************)
(* Theorems about one sending call, for any number of retries and reads.   *)
(***************************************************************************)
EXTENDS TransactionLifecycle, TLAPS

\* Only the current attempt's transaction can be anywhere, and it is nowhere until its
\* submit request is made; PRE_SUBMISSION_BLOCKHASH_EXPIRED ends a call at that point.
SubmissionInv ==
    /\ TypeOK
    /\ \A k \in Attempts : k # attempt => chain[k].at = "unsent"
    /\ pc \in {"prepare", "submit"} => chain[attempt].at = "unsent"
    /\ pc # "done" => verdict = "none"
    /\ verdict = "PRE_SUBMISSION_BLOCKHASH_EXPIRED" => chain[attempt].at = "unsent"

LEMMA StatusTypes == {Unsent, InFlight, Expired} \subseteq ChainStatus
  BY DEF Unsent, InFlight, Expired, ChainStatus

\* What a poll concludes is a classification, and never that nothing was submitted.
LEMMA VerdictTypes ==
    ASSUME NEW status \in ChainStatus, NEW timedOut \in BOOLEAN
    PROVE  Verdict(status, timedOut)
                \in Classification \ {"PRE_SUBMISSION_BLOCKHASH_EXPIRED"}
  <1>1. SuccessVerdict(status, timedOut)
            \in Classification \ {"PRE_SUBMISSION_BLOCKHASH_EXPIRED"}
    BY DEF SuccessVerdict, Classification
  <1>2. RefusalVerdict(status, timedOut)
            \in Classification \ {"PRE_SUBMISSION_BLOCKHASH_EXPIRED"}
    <2>1. CASE ~InBlock(status) /\ caught = "rate limit"
      BY <2>1 DEF RefusalVerdict, Classification
    <2>2. CASE ~InBlock(status) /\ caught = "other"
      BY <2>2 DEF RefusalVerdict, Classification
    <2>3. CASE caught = "nothing" /\ (timedOut \/ ~InBlock(status))
      BY <2>3 DEF RefusalVerdict, Classification
    <2>4. CASE /\ ~(~InBlock(status) /\ caught \in {"rate limit", "other"})
               /\ ~(caught = "nothing" /\ (timedOut \/ ~InBlock(status)))
      BY <2>4 DEF RefusalVerdict, Classification
    <2> QED
      BY <2>1, <2>2, <2>3, <2>4
  <1> QED
    BY <1>1, <1>2 DEF Verdict

LEMMA SubmissionStep == SubmissionInv /\ [Next]_vars => SubmissionInv'
  <1> SUFFICES ASSUME SubmissionInv, [Next]_vars PROVE SubmissionInv'
    OBVIOUS
  <1> USE LifecycleAssumption DEF Attempts
  <1>1. CASE PrepareTransaction
    BY <1>1 DEF PrepareTransaction, SubmissionInv, TypeOK
  <1>2. CASE RpcThrows
    BY <1>2 DEF RpcThrows, Finish, SubmissionInv, TypeOK
  <1>3. CASE Accepted
    BY <1>3, StatusTypes DEF Accepted, SubmissionInv, TypeOK
  <1>4. CASE StaleBlockhash
    <2>1. UNCHANGED <<mode, caught, polls, chain>> /\ chain[attempt].at = "unsent"
      BY <1>4 DEF StaleBlockhash, SubmissionInv
    <2>2. attempt \in Attempts /\ \A k \in Attempts : chain[k].at = "unsent"
      BY <2>1 DEF SubmissionInv, TypeOK
    <2>3. CASE attempt >= MaxBlockhashRetries
      <3>1. attempt' = attempt /\ pc' = "done"
            /\ verdict' = "PRE_SUBMISSION_BLOCKHASH_EXPIRED"
        BY <1>4, <2>3 DEF StaleBlockhash, Finish
      <3> QED
        BY <2>1, <2>2, <3>1 DEF SubmissionInv, TypeOK, Classification
    <2>4. CASE ~(attempt >= MaxBlockhashRetries)
      <3>1. attempt' = attempt + 1 /\ pc' = "prepare" /\ verdict' = verdict
        BY <1>4, <2>4 DEF StaleBlockhash
      <3>2. attempt' \in Attempts
        BY <2>2, <2>4, <3>1
      <3> QED
        BY <1>4, <2>1, <2>2, <3>1, <3>2 DEF StaleBlockhash, SubmissionInv, TypeOK
    <2> QED
      BY <2>3, <2>4
  <1>5. CASE SubmitFails
    <2>1. PICK status \in {Unsent, InFlight} : chain' = [chain EXCEPT ![attempt] = status]
      BY <1>5 DEF SubmitFails
    <2>2. status \in ChainStatus
      BY <2>1, StatusTypes
    <2> QED
      BY <1>5, <2>1, <2>2 DEF SubmitFails, SubmissionInv, TypeOK
  <1>6. CASE Poll
    <2>1. PICK status \in Answers :
            \/ \E timedOut \in BOOLEAN : Finish(Verdict(status, timedOut))
            \/ UNCHANGED <<pc, verdict>>
      BY <1>6, Zenon DEF Poll
    <2>2. status \in ChainStatus
      BY <2>1, StatusTypes DEF Answers, SubmissionInv, TypeOK
    <2>3. \/ pc' = "done" /\ verdict' \in Classification \ {"PRE_SUBMISSION_BLOCKHASH_EXPIRED"}
          \/ pc' = pc /\ verdict' = verdict
      BY <2>1, <2>2, VerdictTypes DEF Finish
    <2>4. polls' \in 0 .. MaxPolls
      <3>1. polls' = polls \/ (polls < MaxPolls /\ polls' = polls + 1)
        BY <1>6, Zenon DEF Poll
      <3>2. polls \in 0 .. MaxPolls
        BY DEF SubmissionInv, TypeOK
      <3> QED
        BY <3>1, <3>2
    <2>5. UNCHANGED <<mode, attempt, caught, chain>> /\ pc = "confirm"
      BY <1>6 DEF Poll
    <2> QED
      BY <2>3, <2>4, <2>5 DEF SubmissionInv, TypeOK
  <1>7. ASSUME NEW k \in Attempts, NEW status \in ChainStatus,
               chain[k].at # "unsent", Becomes(k, status)
        PROVE  SubmissionInv'
    <2>1. k = attempt
      BY <1>7 DEF SubmissionInv
    <2>2. UNCHANGED <<mode, pc, attempt, caught, polls, verdict>>
      BY <1>7 DEF Becomes, client
    <2> QED
      BY <1>7, <2>1, <2>2 DEF Becomes, SubmissionInv, TypeOK
  <1>8. CASE Cluster
    <2>1. PICK k \in Attempts :
            \/ \E err \in BOOLEAN : Process(k, err)
            \/ Confirm(k) \/ Abandon(k) \/ Expire(k)
      BY <1>8 DEF Cluster
    <2>2. chain[k] \in ChainStatus
      BY DEF SubmissionInv, TypeOK
    <2>3. [chain[k] EXCEPT !.at = "confirmed"] \in ChainStatus
      BY <2>2 DEF ChainStatus
    <2>4. \A err \in BOOLEAN : [at |-> "processed", err |-> err] \in ChainStatus
      BY DEF ChainStatus
    <2> QED
      BY <2>1, <2>3, <2>4, <1>7, StatusTypes DEF Process, Confirm, Abandon, Expire
  <1>9. CASE UNCHANGED vars
    BY <1>9 DEF vars, client, SubmissionInv, TypeOK
  <1> QED
    BY <1>1, <1>2, <1>3, <1>4, <1>5, <1>6, <1>8, <1>9 DEF Next, Call, Settles

LEMMA SubmissionInit == Init => SubmissionInv
  BY LifecycleAssumption, StatusTypes
  DEF Init, SubmissionInv, TypeOK, Attempts, Unsent

LEMMA SubmissionAlways == Spec => []SubmissionInv
  BY SubmissionInit, SubmissionStep, PTL DEF Spec

\* However the endpoint fails, of all the transactions one call signs at most one ever
\* reaches a node: the retry cannot move the tokens twice.
THEOREM NeverSentTwice == Spec => []OneReachesTheNetwork
  <1>1. SubmissionInv => OneReachesTheNetwork
    BY DEF SubmissionInv, OneReachesTheNetwork
  <1> QED
    BY <1>1, SubmissionAlways, PTL

\* The one classification that invites a caller to repeat the operation is given only
\* when none of the call's transactions can ever land.
THEOREM SafeToRepeat == Spec => []ExpiredBeforeSubmission
  <1>1. SubmissionInv => ExpiredBeforeSubmission
    BY DEF SubmissionInv, ExpiredBeforeSubmission
  <1> QED
    BY <1>1, SubmissionAlways, PTL
-----------------------------------------------------------------------------
(* What the verdict of a poll says about the chain. *)

\* A program failure is concluded only from a status with an error in it; a success or
\* a defect only from one without, and not after a deadline if the submission returned.
LEMMA VerdictMeans ==
    ASSUME TypeOK, NEW status \in ChainStatus, NEW timedOut \in BOOLEAN
    PROVE  /\ Verdict(status, timedOut) = "TRANSACTION_SUBMITTED_PROGRAM_FAILURE" =>
                InBlock(status) /\ status.err
           /\ Verdict(status, timedOut) \in {"TRANSACTION_SUBMITTED_SUCCESS", "CUSTODY_DEFECT"} =>
                /\ InBlock(status) /\ ~status.err
                /\ caught = "nothing" => ~timedOut
  <1> DEFINE Means(v) ==
                /\ v = "TRANSACTION_SUBMITTED_PROGRAM_FAILURE" => InBlock(status) /\ status.err
                /\ v \in {"TRANSACTION_SUBMITTED_SUCCESS", "CUSTODY_DEFECT"} =>
                    /\ InBlock(status) /\ ~status.err
                    /\ caught = "nothing" => ~timedOut
  <1>1. caught \in {"rate limit", "other", "nothing"}
    BY DEF TypeOK, SubmitErrors
  <1>2. Means(SuccessVerdict(status, timedOut))
    <2>1. CASE InBlock(status) /\ status.err
      BY <2>1 DEF SuccessVerdict
    <2>2. CASE InBlock(status) /\ ~status.err
      <3>1. CASE caught # "nothing" \/ ~timedOut
        BY <2>2, <3>1 DEF SuccessVerdict
      <3>2. CASE ~(caught # "nothing" \/ ~timedOut)
        BY <2>2, <3>2 DEF SuccessVerdict
      <3> QED
        BY <3>1, <3>2
    <2>3. CASE ~InBlock(status)
      <3>1. CASE caught = "rate limit"
        BY <2>3, <3>1 DEF SuccessVerdict
      <3>2. CASE caught # "rate limit"
        BY <2>3, <3>2 DEF SuccessVerdict
      <3> QED
        BY <3>1, <3>2
    <2> QED
      BY <2>1, <2>2, <2>3
  <1>3. Means(RefusalVerdict(status, timedOut))
    <2>1. CASE ~InBlock(status) /\ caught = "rate limit"
      BY <2>1 DEF RefusalVerdict
    <2>2. CASE ~InBlock(status) /\ caught = "other"
      BY <2>2 DEF RefusalVerdict
    <2>3. CASE caught = "nothing" /\ (timedOut \/ ~InBlock(status))
      BY <2>3 DEF RefusalVerdict
    <2>4. CASE InBlock(status) /\ ~(caught = "nothing" /\ timedOut)
      BY <2>4 DEF RefusalVerdict
    <2> QED
      BY <1>1, <2>1, <2>2, <2>3, <2>4
  <1> QED
    BY <1>2, <1>3 DEF Verdict

\* Every way a step can set the verdict: a poll that saw a status of the current
\* attempt, in a call whose deadline had passed or not, or something that says nothing
\* about the chain.
LEMMA VerdictStep ==
    ASSUME SubmissionInv, [Next]_vars, verdict' # verdict
    PROVE  \/ verdict' \in {"unclassified", "PRE_SUBMISSION_BLOCKHASH_EXPIRED"}
           \/ /\ UNCHANGED <<attempt, caught, chain>>
              /\ \E status \in Answers, timedOut \in BOOLEAN :
                    /\ verdict' = Verdict(status, timedOut)
                    /\ timedOut \/ Resolved(status)
  <1>1. CASE Poll
    <2>1. PICK status \in Answers :
            \/ Resolved(status) /\ Finish(Verdict(status, FALSE))
            \/ Finish(Verdict(status, TRUE))
            \/ UNCHANGED verdict
      BY <1>1, Zenon DEF Poll
    <2> QED
      BY <1>1, <2>1 DEF Poll, Finish
  <1>2. CASE RpcThrows
    BY <1>2 DEF RpcThrows, Finish
  <1>3. CASE StaleBlockhash
    BY <1>3 DEF StaleBlockhash, Finish
  <1>4. CASE Cluster
    <2>1. UNCHANGED client
      BY <1>4 DEF Cluster, Process, Confirm, Abandon, Expire, Becomes
    <2> QED
      BY <2>1 DEF client
  <1> QED
    BY <1>1, <1>2, <1>3, <1>4
    DEF Next, Call, Settles, PrepareTransaction, Accepted, SubmitFails, vars, client

\* A status read that shows a block shows the one the transaction is in.
LEMMA AnswersAreSeen ==
    ASSUME TypeOK, NEW status \in Answers
    PROVE  status \in ChainStatus /\ (InBlock(status) => status = chain[attempt])
  <1>1. status = Unsent \/ status = chain[attempt]
    BY DEF Answers
  <1>2. chain[attempt] \in ChainStatus
    BY DEF TypeOK
  <1>3. ~InBlock(Unsent)
    BY DEF InBlock, Unsent
  <1> QED
    BY <1>1, <1>2, <1>3, StatusTypes

\* A program failure, a success or a defect is concluded from a block that holds the
\* transaction, with the error or without it; no failure of the endpoint becomes one.
THEOREM VerdictsAreFound == Spec => VerdictsComeFromBlocks
  <1> DEFINE Found ==
        verdict' # verdict =>
            /\ verdict' = "TRANSACTION_SUBMITTED_PROGRAM_FAILURE" =>
                    InBlock(chain[attempt]) /\ chain[attempt].err
            /\ verdict' \in {"TRANSACTION_SUBMITTED_SUCCESS", "CUSTODY_DEFECT"} =>
                    InBlock(chain[attempt]) /\ ~chain[attempt].err
  <1>1. SubmissionInv /\ [Next]_vars => [Found]_vars
    <2> SUFFICES ASSUME SubmissionInv, [Next]_vars, verdict' # verdict PROVE Found
      BY DEF vars, client
    <2>1. CASE verdict' \in {"unclassified", "PRE_SUBMISSION_BLOCKHASH_EXPIRED"}
      BY <2>1
    <2>2. ASSUME NEW status \in Answers, NEW timedOut \in BOOLEAN,
                 verdict' = Verdict(status, timedOut)
          PROVE  Found
      <3>1. TypeOK
        BY DEF SubmissionInv
      <3> QED
        BY <2>2, <3>1, AnswersAreSeen, VerdictMeans
    <2> QED
      BY <2>1, <2>2, VerdictStep
  <1> QED
    BY <1>1, SubmissionAlways, PTL DEF Spec, VerdictsComeFromBlocks

\* The submit request cannot fail, nor a new attempt begin, once there is a verdict;
\* and what is confirmed the cluster leaves alone.
LEMMA ConfirmedIsFinal ==
    ASSUME SubmissionInv, [Next]_vars, verdict # "none",
           chain[attempt] = [at |-> "confirmed", err |-> FALSE]
    PROVE  UNCHANGED <<attempt, caught, chain[attempt]>>
  <1>1. pc = "done"
    BY DEF SubmissionInv
  <1>2. CASE Cluster
    <2>1. UNCHANGED client
      BY <1>2 DEF Cluster, Process, Confirm, Abandon, Expire, Becomes
    <2>2. PICK k \in Attempts : \E status : /\ chain' = [chain EXCEPT ![k] = status]
                                            /\ chain[k].at \in {"in flight", "processed"}
      BY <1>2, Zenon DEF Cluster, Process, Confirm, Abandon, Expire, Becomes
    <2>3. chain[attempt].at = "confirmed"
      OBVIOUS
    <2>4. k # attempt
      BY <2>2, <2>3
    <2>5. chain'[attempt] = chain[attempt]
      BY <2>2, <2>4 DEF SubmissionInv, TypeOK
    <2> QED
      BY <2>1, <2>5 DEF client
  <1>3. CASE UNCHANGED vars
    BY <1>3 DEF vars, client
  <1> QED
    BY <1>1, <1>2, <1>3
    DEF Next, Call, Settles, PrepareTransaction, Accepted, StaleBlockhash, SubmitFails,
        Poll, RpcThrows

\* After a submission that returned, a success or a defect is reported only of a
\* transaction that is confirmed without error, and no fork takes it back later.
THEOREM ReportedIsConfirmed == Spec => []ConfirmedWhenSubmitted
  <1>1. Init => ConfirmedWhenSubmitted
    BY DEF Init, ConfirmedWhenSubmitted
  <1>2. SubmissionInv /\ ConfirmedWhenSubmitted /\ [Next]_vars => ConfirmedWhenSubmitted'
    <2> SUFFICES ASSUME SubmissionInv, ConfirmedWhenSubmitted, [Next]_vars,
                        caught' = "nothing",
                        verdict' \in {"TRANSACTION_SUBMITTED_SUCCESS", "CUSTODY_DEFECT"}
                 PROVE  chain'[attempt'] = [at |-> "confirmed", err |-> FALSE]
      BY DEF ConfirmedWhenSubmitted
    <2>1. CASE verdict' = verdict
      <3>1. verdict # "none" /\ pc = "done"
        BY <2>1 DEF SubmissionInv
      <3>2. caught' = caught
        <4>1. CASE Cluster
          BY <4>1 DEF Cluster, Process, Confirm, Abandon, Expire, Becomes, client
        <4> QED
          BY <3>1, <4>1 DEF Next, Call, Settles, PrepareTransaction, Accepted,
             StaleBlockhash, SubmitFails, Poll, RpcThrows, vars, client
      <3> QED
        BY <2>1, <3>1, <3>2, ConfirmedIsFinal DEF ConfirmedWhenSubmitted
    <2>2. CASE verdict' # verdict
      <3>1. PICK status \in Answers, timedOut \in BOOLEAN :
                /\ UNCHANGED <<attempt, caught, chain>>
                /\ verdict' = Verdict(status, timedOut)
                /\ timedOut \/ Resolved(status)
        BY <2>2, VerdictStep
      <3>2. TypeOK
        BY DEF SubmissionInv
      <3>3. status \in ChainStatus /\ InBlock(status) /\ ~status.err /\ ~timedOut
        BY <3>1, <3>2, AnswersAreSeen, VerdictMeans
      <3>4. status = chain[attempt] /\ status.at = "confirmed"
        BY <3>1, <3>2, <3>3, AnswersAreSeen DEF Resolved
      <3> QED
        BY <3>1, <3>3, <3>4 DEF ChainStatus
    <2> QED
      BY <2>1, <2>2
  <1> QED
    BY <1>1, <1>2, SubmissionAlways, PTL DEF Spec
=============================================================================
