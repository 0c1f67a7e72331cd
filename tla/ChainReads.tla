----------------------------- MODULE ChainReads -----------------------------
(***************************************************************************)
(* replayAgreement: the indexer reads an agreement's signatures, newest    *)
(* first and page by page, then one transaction per signature, from a      *)
(* public endpoint.  Meanwhile the agreement goes on and its history       *)
(* grows; any request can be rate limited, fail for good, or, for a        *)
(* transaction that is listed, answer null.  The read client of the        *)
(* scripts (scripts/lib/rpc.mjs) repeats a rate-limited read the same way. *)
(*                                                                         *)
(* The n-th transaction that touches the agreement has signature n; 0 is   *)
(* an absent `before` or `until`.                                          *)
(***************************************************************************)
EXTENDS Integers, Sequences, SequencesExt

CONSTANTS
    PageSize,               \* pageSize
    MaxSignatures,          \* maxSignatures
    MaxRateLimitRetries,    \* RATE_LIMIT_MAX_RETRIES
    BackoffMs,              \* RATE_LIMIT_BACKOFF_MS
    MaxDelayMs,             \* RATE_LIMIT_MAX_DELAY_MS
    RetryAfterHeaders,      \* the Retry-After headers considered
    MaxChain                \* bound on the transactions of the agreement

ASSUME ReaderAssumption ==
    /\ {PageSize, MaxSignatures} \subseteq Nat \ {0}
    /\ {MaxRateLimitRetries, MaxDelayMs, MaxChain} \subseteq Nat
    /\ BackoffMs \in Seq(Nat) /\ BackoffMs # << >>
    /\ \A header \in RetryAfterHeaders :
        header.value \in IF header.form = "seconds" THEN Nat ELSE Int

VARIABLES
    chain,      \* the agreement's transactions: a failed one commits nothing, and
                \* one that succeeded may carry no event of this agreement
    until,      \* options.until: a signature that is already indexed
    pc,         \* "page", "read", "done", or "error" once something was thrown
    before,     \* the cursor of signatureHistory
    collected,  \* its result, newest first until it is complete
    pos,        \* the entry that replayAgreement has reached
    missing,    \* the entries whose transaction came back null
    events,     \* the transactions whose event went into the projection
    attempt,    \* the repeats of the request that is out
    waited,     \* waitedMs: its backoff so far
    seen        \* the length of the history when the replay began

request == <<attempt, waited>>
reader == <<until, pc, before, collected, pos, missing, events, request, seen>>
vars == <<chain, reader>>

Kinds == {"event", "other", "failed"}
Absent == -1    \* a header that is missing, or one that is not sane

\* An address has a history before it is replayed; `until` is in it if it is given.
Init ==
    /\ chain \in UNION {[1 .. n -> Kinds] : n \in 1 .. MaxChain}
    /\ until \in 0 .. Len(chain)
    /\ pc = "page"
    /\ before = 0
    /\ collected = << >>
    /\ pos = 1
    /\ missing = {}
    /\ events = << >>
    /\ attempt = 0 /\ waited = 0
    /\ seen = Len(chain)

Grow(kind) ==
    /\ Len(chain) < MaxChain
    /\ chain' = Append(chain, kind)
    /\ UNCHANGED reader
-----------------------------------------------------------------------------
(* One request: call, in either client. *)
AtMost(n, limit) == IF n > limit THEN limit ELSE n

\* Broken: as long as the endpoint asks for.
ParseRetryAfter_Uncapped(header) ==
    IF header.form = "seconds" THEN header.value * 1000
    ELSE IF header.form # "date" THEN Absent
    ELSE IF header.value <= 0 THEN 0 ELSE header.value

\* A number of seconds, or a date by its distance from now; nothing else is trusted.
ParseRetryAfter(header) ==
    IF header.form = "seconds" THEN AtMost(header.value * 1000, MaxDelayMs)
    ELSE IF header.form # "date" THEN Absent
    ELSE IF header.value <= 0 THEN 0 ELSE AtMost(header.value, MaxDelayMs)

\* With equal jitter: random() at its two ends.
RateLimitDelaysMs(retry, header) ==
    LET base == AtMost(BackoffMs[AtMost(retry, Len(BackoffMs))], MaxDelayMs)
    IN  IF ParseRetryAfter(header) # Absent THEN {ParseRetryAfter(header)}
        ELSE {base \div 2, base}

InRead == pc = "read" /\ pos <= Len(collected)

\* A page, or the transaction of an entry that the listing does not report failed.
NeedsRequest ==
    \/ pc = "page"
    \/ InRead /\ chain[collected[pos]] # "failed"

\* Broken: the count starts over instead of running out.
RateLimited_Wraps(header) ==
    /\ NeedsRequest
    /\ attempt' = (attempt + 1) % MaxRateLimitRetries
    /\ waited' = 0
    /\ UNCHANGED <<chain, until, pc, before, collected, pos, missing, events, seen>>

\* HTTP 429 with repeats left: sleep, and ask again.
RateLimited(header) ==
    /\ NeedsRequest
    /\ attempt < MaxRateLimitRetries
    /\ attempt' = attempt + 1
    /\ \E delay \in RateLimitDelaysMs(attempt + 1, header) : waited' = waited + delay
    /\ UNCHANGED <<chain, until, pc, before, collected, pos, missing, events, seen>>

\* Another 429, another status, a transport error or a JSON-RPC error is final.
RequestFails ==
    /\ NeedsRequest
    /\ pc' = "error"
    /\ UNCHANGED <<chain, until, before, collected, pos, missing, events, request, seen>>

Answered == attempt' = 0 /\ waited' = 0
-----------------------------------------------------------------------------
(* signatureHistory *)

\* getSignaturesForAddress: the newest signatures below the cursor, newest first.
Page ==
    LET newest == IF before = 0 THEN Len(chain) ELSE before - 1
    IN  [i \in 1 .. AtMost(newest, PageSize) |-> newest + 1 - i]

\* Broken: the cursor is inclusive, so the last signature of a page is read twice.
NextCursor_Repeats(page) == page[Len(page)] + 1

NextCursor(page) == page[Len(page)]

\* The entries of a page are taken up to `until`, if it is there.
Fresh(page) ==
    IF until \in ToSet(page)
    THEN SubSeq(page, 1, (CHOOSE i \in DOMAIN page : page[i] = until) - 1)
    ELSE page

\* Throws when maxSignatures is reached and `until` was not met, even by the last page.
ReadPage ==
    LET page  == Page
        met   == until \in ToSet(page)
        all   == collected \o Fresh(page)
        last  == page = << >> \/ met \/ Len(page) < PageSize
        ended == page = << >> \/ met
    IN  /\ pc = "page"
        /\ IF ~ended /\ Len(all) >= MaxSignatures
           THEN pc' = "error" /\ UNCHANGED <<before, collected>>
           ELSE IF last
           THEN pc' = "read" /\ collected' = Reverse(all) /\ UNCHANGED before
           ELSE collected' = all /\ before' = NextCursor(page) /\ UNCHANGED pc
        /\ Answered
        /\ UNCHANGED <<chain, until, pos, missing, events, seen>>
-----------------------------------------------------------------------------
(* replayAgreement *)
\* The listing already says that it failed.
SkipFailed ==
    /\ InRead
    /\ chain[collected[pos]] = "failed"
    /\ pos' = pos + 1
    /\ UNCHANGED <<chain, until, pc, before, collected, missing, events, request, seen>>

\* Only this agreement's events are kept.
ReadTransaction ==
    /\ InRead /\ NeedsRequest
    /\ pos' = pos + 1
    /\ events' = IF chain[collected[pos]] = "event" THEN Append(events, collected[pos])
                 ELSE events
    /\ Answered
    /\ UNCHANGED <<chain, until, pc, before, collected, missing, seen>>

\* `if (!tx) continue`: a node that lists a signature may not serve its transaction.
TransactionIsNull ==
    /\ InRead /\ NeedsRequest
    /\ pos' = pos + 1
    /\ missing' = missing \cup {collected[pos]}
    /\ Answered
    /\ UNCHANGED <<chain, until, pc, before, collected, events, seen>>

\* A replay with no event at all is an error.
Project ==
    /\ pc = "read" /\ pos > Len(collected)
    /\ pc' = IF events = << >> THEN "error" ELSE "done"
    /\ UNCHANGED <<chain, until, before, collected, pos, missing, events, request, seen>>
-----------------------------------------------------------------------------
Reads ==
    \/ \E header \in RetryAfterHeaders : RateLimited(header)
    \/ RequestFails
    \/ ReadPage
    \/ SkipFailed
    \/ ReadTransaction
    \/ TransactionIsNull
    \/ Project

Next == Reads \/ \E kind \in Kinds : Grow(kind)

\* Every request is answered or rejected in the end, fetch having timeouts of its
\* own, and the process keeps running; nothing says that an answer is not a 429.
Spec == Init /\ [][Next]_vars /\ WF_vars(Reads)
-----------------------------------------------------------------------------
\* "Rebuilds that agreement's entire lifecycle" (replay.ts): the events of a replay
\* that ends are those of every transaction after `until` up to some point no
\* earlier than the start of the replay, each once and in chain order, save those
\* that the endpoint had no transaction for - although the history is read
\* backwards, in pages, while it grows.
ReplayIsComplete ==
    pc = "done" =>
        \E upTo \in seen .. Len(chain) :
            /\ collected = [i \in 1 .. (upTo - until) |-> until + i]
            /\ ToSet(events) =
                    {n \in (until + 1) .. upTo : chain[n] = "event" /\ n \notin missing}
            /\ \A i, j \in DOMAIN events : i < j => events[i] < events[j]

\* "Never unbounded" (rpc.ts), "No single wait exceeds this, however long Retry-After
\* asks for": one request is repeated a bounded number of times and waits, over
\* all its repeats, no longer than that many capped delays.
RetriesAreBounded ==
    /\ attempt <= MaxRateLimitRetries
    /\ waited <= attempt * MaxDelayMs

\* An endpoint that rate limits for ever, or a history that grows, cannot keep the
\* replay going: it returns or throws ("an unbounded retry against a rate limiter is
\* indistinguishable from a hang", scripts/lib/rpc.mjs).
ReplayEnds == <>(pc \in {"done", "error"})
=============================================================================
